---- MODULE Spec2Model ----
(***************************************************************************)
(* Run-preserving translation of PowerPoint and Word documents:            *)
(* the should-translate predicates, the run-by-run substitution engine,    *)
(* the Word structure/quality validators and the formatting capture/apply  *)
(* managers, modelled from the Python sources.                             *)
(*                                                                         *)
(* A text is a sequence of characters; a character is a one-token string   *)
(* ("N", "a", " ", "bullet", ...).  Python's str methods are modelled by   *)
(* what they compute on such sequences.                                    *)
(***************************************************************************)
EXTENDS Integers, Sequences, FiniteSets, TLC

VARIABLES
    \* ---- should-translate predicate harness
    text,        \* the text handed to _should_translate_text
    predDone,    \* TRUE once both predicates were evaluated on text
    resPptx,     \* result of EnhancedShapeProcessor._should_translate_text
    resDocx,     \* result of WordFormattingManager._should_translate_text
    \* ---- run-preserving engine (one document pass)
    kind,        \* "pptx" or "docx": which engine runs
    cb,          \* the injected translate_func
    runs,        \* paragraph.runs of the paragraph being processed
    orig,        \* the same paragraph as it was before processing
    ri,          \* number of runs of the paragraph the loop has gone through
    calls,       \* per run: the argument translate_func was called with, or NoCall
    rets,        \* per run: what translate_func returned, or NoCall / Raised
    parasDone,   \* paragraphs of the pass completely processed
    pass,        \* "running", "saved" or "failed" (exception reached the caller)
    \* ---- Word validator
    origDoc,     \* paragraphs of the original document (each a sequence of runs)
    transDoc,    \* paragraphs of the translated document
    loadOk,      \* FALSE when Document(path) raises
    report,      \* validate_document_structure's report, or NoReport
    quality,     \* validate_translation_quality's report, or NoReport
    badNode,     \* index of the original's paragraph whose text cannot be read, or 0
    comparison,  \* compare_documents' report, or NoReport
    \* ---- formatting managers
    fmtKind,     \* "pptx" or "docx": which formatting manager
    run0,        \* the run before capture
    run1,        \* the run now
    rec,         \* the captured formatting record, or NoRec
    fault,       \* the attribute of the run whose read raises, or "none"
    fmtPc,       \* "start", "captured", "capture_raised", "applied", "applied_record", "applied_color"
    \* ---- format markers (TextProcessor)
    mText,       \* the container text given to insert_format_markers
    mMarked,     \* the marked text
    mMarkers,    \* the marker_info dict, by line index
    mCb,         \* what the callback does with the marked text
    mRet,        \* the text the callback returned
    mWith,       \* TRUE when remove_format_markers is given the marker dict
    mClean,      \* the text remove_format_markers returned
    mPc,         \* "start", "marked", "translated", "removed", "remove_raised"
    \* ---- container-level reconstruction pass (ShapeProcessor)
    prs,         \* the presentation: slides, each a sequence of shapes
    format_maps, \* FormattingManager.format_maps: shape id -> captured records
    shCb,        \* what the translate function of the pass does with a marked text
    slide_idx,   \* the slide the pass is at
    shape_idx,   \* the shape of that slide the pass is at
    processed,   \* the last _process_text_frame call that captured, or NotProcessed
    \* ---- order of the callback calls of one document pass
    docKind,     \* "docx" (translate_document) or "pptx" (translate_presentation)
    document,    \* the document of the pass, with the translator's switches
    callLog,     \* the runs translate was called for, in call order
    inFlight,    \* the calls of translate that have not returned
    returned,    \* the runs whose call returned and whose text was rewritten
    passPc,      \* "loading", "running", "saved" or "failed"
    saves,       \* how many times save(output_path) was called in the pass
    failedIn,    \* the step whose exception reached the caller, or "none"
    \* ---- SmartArt text nodes (EnhancedShapeProcessor._process_smartart)
    smNodes,     \* the text of each a:t element of the SmartArt, in document order
    smOrig,      \* the same texts before processing
    smCb,        \* the injected translate_func
    smContent,   \* content_list: the (text, node index) pairs extracted up front
    smIdx,       \* entries of content_list the loop has gone through
    smCalls,     \* per entry gone through: Some(what translate_func returned) or None
    smPc,        \* "start", "loop", "done" or "failed"
    \* ---- context identifiers of one traversal (FormatValidator)
    idPrs,       \* the presentation: slides with their shapes and notes
    idSlide,     \* the slide the traversal is at
    idShape,     \* the shape of that slide the traversal is at
    idSeen,      \* the <<container, identifier>> pairs produced so far
    \* ---- the built-in translate_text
    svText,      \* the text handed to translate_text
    svService,   \* what the service does when it is called
    svCalls,     \* how many times the service was called
    svResult,    \* how translate_text ended: Returns(text) or Raises
    svPc         \* "start", "calling" or "returned"

predVars == <<text, predDone, resPptx, resDocx>>
engVars  == <<kind, cb, runs, orig, ri, calls, rets, parasDone, pass>>
valVars  == <<origDoc, transDoc, loadOk, report, quality, badNode, comparison>>
fmtVars  == <<fmtKind, run0, run1, rec, fault, fmtPc>>
markVars == <<mText, mMarked, mMarkers, mCb, mRet, mWith, mClean, mPc>>
shapeVars == <<prs, format_maps, shCb, slide_idx, shape_idx, processed>>
orderVars == <<docKind, document, callLog, inFlight, returned, passPc, saves, failedIn>>
smVars   == <<smNodes, smOrig, smCb, smContent, smIdx, smCalls, smPc>>
idVars   == <<idPrs, idSlide, idShape, idSeen>>
svcVars  == <<svText, svService, svCalls, svResult, svPc>>
vars     == <<predVars, engVars, valVars, fmtVars, markVars, shapeVars, orderVars,
              smVars, idVars, svcVars>>

-----------------------------------------------------------------------------
(* Bounds of the model *)

MaxLen   == 3    \* longest generated text, in characters
MaxRuns  == 2    \* most runs in a generated paragraph
MaxParas == 2    \* most paragraphs in a pass / in a generated document

-----------------------------------------------------------------------------
(* Characters and Python's str methods *)

SpaceChars == {" ", "tab", "nl", "vt"}
UpperChars == {"N", "A", "S", "H", "W", "L", "P"}
LowerChars == {"a", "b", "c", "d", "e", "h", "i", "l", "m", "n", "o", "r", "s", "t", "w"}
DigitChars == {"0", "1", "2", "3", "4", "5", "6", "7", "8", "9"}
OtherChars == {".", "&", "bullet", "rarr", "larr", "uarr", "darr", "[", "]"}

\* characters the generated texts are made of: one or two of each class
Alphabet == {" ", "N", "a", "4", "."}

IsSpaceCh(c) == c \in SpaceChars
IsCased(c)   == c \in UpperChars \cup LowerChars

RECURSIVE LStrip(_)
\* str.lstrip(): the text without its leading whitespace
LStrip(t) ==
    IF t = <<>> THEN <<>>
    ELSE IF IsSpaceCh(Head(t)) THEN LStrip(Tail(t))
    ELSE t

RECURSIVE RStrip(_)
\* str.rstrip(): the text without its trailing whitespace
RStrip(t) ==
    IF t = <<>> THEN <<>>
    ELSE IF IsSpaceCh(t[Len(t)]) THEN RStrip(SubSeq(t, 1, Len(t) - 1))
    ELSE t

\* str.strip()
Strip(t) == RStrip(LStrip(t))

\* str.isspace(): non-empty and all whitespace
IsSpace(t) == t # <<>> /\ \A i \in 1..Len(t) : IsSpaceCh(t[i])

\* str.isupper(): at least one cased character and no lowercase one
IsUpper(t) ==
    /\ \E i \in 1..Len(t) : IsCased(t[i])
    /\ \A i \in 1..Len(t) : t[i] \notin LowerChars

\* str.isdigit(): non-empty and all digits
IsDigit(t) == t # <<>> /\ \A i \in 1..Len(t) : t[i] \in DigitChars

\* `not s` / `if s` on a str
Truthy(t) == t # <<>>

-----------------------------------------------------------------------------
(* The texts of the specification's examples *)

T_empty  == <<>>
T_NASA   == <<"N", "A", "S", "A">>
T_NASA24 == <<"N", "A", "S", "A", " ", "2", "0", "2", "4">>
T_42     == <<"4", "2">>
T_a      == <<"a">>
T_Hello  == <<"H", "e", "l", "l", "o", " ", "W", "o", "r", "l", "d">>
T_dots   == <<".", ".", ".">>
T_hello  == <<"h", "e", "l", "l", "o">>
T_world  == <<"w", "o", "r", "l", "d">>
T_ciao   == <<"c", "i", "a", "o">>
T_sono   == <<"s", "o", "n", "o">>
T_io     == <<"i", "o">>
T_me     == <<"m", "e">>
T_thisis == <<"t", "h", "i", "s", " ", "i", "s">>

\* the non-translatable patterns listed by the Word predicate
WordGlyphs == {<<"&">>, T_dots, <<"bullet">>, <<"rarr">>, <<"larr">>, <<"uarr">>, <<"darr">>}

-----------------------------------------------------------------------------
(* The should-translate predicates *)

\* EnhancedShapeProcessor._should_translate_text, line 293: the acronym test
PptxAcronymBranch(clean) ==
    Len(clean) >= 2 /\ IsUpper(clean) /\ ~IsDigit(clean)

\* EnhancedShapeProcessor._should_translate_text
ShouldTranslatePptx(t) ==
    LET clean == Strip(t) IN
    IF ~Truthy(clean) THEN FALSE
    ELSE IF IsSpace(t) THEN FALSE
    ELSE IF Len(clean) = 1 THEN FALSE
    ELSE IF PptxAcronymBranch(clean)
         THEN (IF \E i \in 1..Len(clean) : clean[i] \in LowerChars THEN TRUE ELSE FALSE)
    ELSE IF IsDigit(clean) THEN FALSE
    ELSE TRUE

\* the Word predicate with the single-character test left out
ShouldTranslateDocx_NoSingleChar(t) ==
    LET clean == Strip(t) IN
    IF ~Truthy(clean) \/ IsSpace(t) THEN FALSE
    ELSE IF Len(clean) >= 2 /\ IsUpper(clean) /\ ~IsDigit(clean) THEN FALSE
    ELSE IF IsDigit(clean) THEN FALSE
    ELSE IF clean \in WordGlyphs THEN FALSE
    ELSE TRUE

\* WordFormattingManager._should_translate_text
ShouldTranslateDocx(t) ==
    LET clean == Strip(t) IN
    IF ~Truthy(clean) \/ IsSpace(t) \/ Len(clean) = 1 THEN FALSE
    ELSE IF Len(clean) >= 2 /\ IsUpper(clean) /\ ~IsDigit(clean) THEN FALSE
    ELSE IF IsDigit(clean) THEN FALSE
    ELSE IF clean \in WordGlyphs THEN FALSE
    ELSE TRUE

\* the predicate the engine of document kind k consults
ShouldTranslate(k, t) ==
    IF k = "pptx" THEN ShouldTranslatePptx(t) ELSE ShouldTranslateDocx(t)

-----------------------------------------------------------------------------
(* Should-translate harness: both predicates applied to one text *)

\* every text of at most n characters over the alphabet
Texts(n) == UNION {[1..k -> Alphabet] : k \in 0..n}

SampleTexts == {T_empty, T_NASA, T_NASA24, T_42, T_a, T_Hello, T_hello, T_io}

PredInputs == Texts(MaxLen) \cup SampleTexts \cup WordGlyphs

PredIdle ==
    /\ text = <<>>
    /\ predDone = FALSE
    /\ resPptx = FALSE
    /\ resDocx = FALSE

PredInit ==
    /\ text \in PredInputs
    /\ predDone = FALSE
    /\ resPptx = FALSE
    /\ resDocx = FALSE

\* one call of each _should_translate_text on the same text
EvalShouldTranslate ==
    /\ ~predDone
    /\ predDone' = TRUE
    /\ resPptx' = ShouldTranslatePptx(text)
    /\ resDocx' = ShouldTranslateDocx(text)
    /\ UNCHANGED text
    /\ UNCHANGED <<engVars, valVars, fmtVars, markVars, shapeVars, orderVars, smVars, idVars, svcVars>>

-----------------------------------------------------------------------------
(* Runs, paragraphs and the injected callback *)

\* Optional values: None is the empty sequence, a present value v is <<v>>
None == <<>>
Some(v) == <<v>>

\* an RGBColor object (a tuple subclass, not an int) of the given hex digits
RGBColor(hex) == [isint |-> FALSE, hex |-> hex]

\* font.color as the host exposes it: its type, and the rgb / theme_color /
\* brightness that can be read (None: reading fails or gives None)
ColorNone  == [type |-> None, rgb |-> None, theme_color |-> None, brightness |-> None]
ColorRed   == [type |-> Some(1), rgb |-> Some(RGBColor(<<"F", "F", "0", "0", "0", "0">>)),
               theme_color |-> None, brightness |-> Some(0)]
ColorDark  == [type |-> Some(1), rgb |-> Some(RGBColor(<<"0", "A", "0", "B", "0", "C">>)),
               theme_color |-> Some("NOT_THEME_COLOR"), brightness |-> Some(0)]
ColorTheme == [type |-> Some(2), rgb |-> None,
               theme_color |-> Some("ACCENT_1"), brightness |-> Some(40)]

\* formatting attached to a run object (run.font.*, run.style); sizes in EMU
FmtPlain == [font_name |-> None, font_size |-> Some(152400),
             bold |-> Some(FALSE), italic |-> Some(FALSE), underline |-> Some(FALSE),
             color |-> ColorNone, language_id |-> "en-US",
             strike |-> None, highlight_color |-> None, style |-> None]
FmtBold  == [font_name |-> Some("Arial"), font_size |-> Some(177800),
             bold |-> Some(TRUE), italic |-> Some(FALSE), underline |-> None,
             color |-> ColorRed, language_id |-> "it-IT",
             strike |-> None, highlight_color |-> None, style |-> None]
FormatPool == {FmtPlain, FmtBold}

\* run texts of the generated paragraphs: empty, blank, acronym, number,
\* glyph, one character, and translatable texts with and without spacing
RunTexts == {T_empty, <<" ">>, <<"N", "A">>, T_42, T_dots, T_a,
             <<" ", " ">> \o T_hello \o <<" ", " ">>,
             T_ciao \o <<" ">>, T_sono, <<" ">> \o T_io}

\* a run object: its identity, its text and its formatting
MkRun(i, t, f) == [id |-> i, text |-> t, fmt |-> f]

\* every paragraph of exactly n runs
ParagraphsOfLen(n) ==
    {[i \in 1..n |-> MkRun(i, tf[i][1], tf[i][2])] : tf \in [1..n -> RunTexts \X FormatPool]}

\* every paragraph of at most n runs
Paragraphs(n) == UNION {ParagraphsOfLen(k) : k \in 0..n}

\* "ciao **sono** io": three runs, the middle one bold
CiaoSonoIo == <<MkRun(1, T_ciao \o <<" ">>, FmtPlain),
                MkRun(2, T_sono, FmtBold),
                MkRun(3, <<" ">> \o T_io, FmtPlain)>>

\* the same paragraph translated
HelloThisIsMe == <<MkRun(1, T_hello \o <<" ">>, FmtPlain),
                   MkRun(2, T_thisis, FmtBold),
                   MkRun(3, <<" ">> \o T_me, FmtPlain)>>

\* paragraphs that may follow the first one in a pass
SampleParagraphs ==
    {CiaoSonoIo,
     <<MkRun(1, <<" ", " ">> \o T_hello \o <<" ", " ">>, FmtBold)>>,
     <<MkRun(1, <<"N", "A">>, FmtBold), MkRun(2, <<" ">>, FmtPlain), MkRun(3, T_dots, FmtPlain)>>,
     <<>>}

\* paragraph.text: the run texts concatenated
RECURSIVE ParagraphText(_)
ParagraphText(rs) ==
    IF rs = <<>> THEN <<>> ELSE Head(rs).text \o ParagraphText(Tail(rs))

\* the callbacks a pass is run with
Callbacks == {"identity", "dict", "padded", "blank", "raising"}

\* the word list of the "dict" callback
DictLookup(t) ==
    IF t = T_hello THEN T_world
    ELSE IF t = T_ciao THEN T_hello
    ELSE IF t = T_sono THEN T_thisis
    ELSE IF t = T_io THEN T_me
    ELSE t

\* translate_func(t): [ok |-> FALSE] when the call raises, else the result.
\* Every callback is a pure function of its argument.
TranslateFunc(c, t) ==
    CASE c = "identity" -> [ok |-> TRUE, val |-> t]
      [] c = "dict"     -> [ok |-> TRUE, val |-> DictLookup(t)]
      [] c = "padded"   -> [ok |-> TRUE, val |-> <<" ">> \o DictLookup(t) \o <<" ">>]
      [] c = "blank"    -> [ok |-> TRUE, val |-> <<>>]
      [] c = "raising"  -> IF t = T_sono \/ t = T_hello
                           THEN [ok |-> FALSE, val |-> <<>>]
                           ELSE [ok |-> TRUE, val |-> DictLookup(t)]

-----------------------------------------------------------------------------
(* _translate_paragraph_runs, both engines *)

\* the loop's test without the should-translate check
RunEligible_NoPredicate(k, t) ==
    Truthy(t) /\ Truthy(Strip(t))

\* `if run.text and run.text.strip()` and `_should_translate_text(original_text)`
RunEligible(k, t) ==
    Truthy(t) /\ Truthy(Strip(t)) /\ ShouldTranslate(k, t)

\* original_text[:len(original_text) - len(original_text.lstrip())]
LeadingSpaces(t) == SubSeq(t, 1, Len(t) - Len(LStrip(t)))

\* original_text[len(original_text.rstrip()):]
TrailingSpaces(t) == SubSeq(t, Len(RStrip(t)) + 1, Len(t))

\* original_text.strip()
CoreText(t) == Strip(t)

\* a reconstruction that drops the recorded spacing
TranslatedText_NoSpacing(t, translated_core) == translated_core

\* leading_spaces + translated_core + trailing_spaces
TranslatedText(t, translated_core) ==
    LeadingSpaces(t) \o translated_core \o TrailingSpaces(t)

\* a write that clears the paragraph and rebuilds it as one run
SetRunText_Rebuild(rs, i, t) == <<[rs[i] EXCEPT !.text = t]>>

\* a write that creates a fresh run in place of the old one
SetRunText_ResetFormat(rs, i, t) == [rs EXCEPT ![i] = MkRun(@.id, t, FmtPlain)]

\* run.text = translated_text
SetRunText(rs, i, t) == [rs EXCEPT ![i].text = t]

NoCall == [called |-> FALSE, arg |-> <<>>]
NoRet  == [st |-> "none", val |-> <<>>]

FreshLog(rs) == [i \in 1..Len(rs) |-> NoCall]
FreshRets(rs) == [i \in 1..Len(rs) |-> NoRet]

EngIdle ==
    /\ kind = "pptx"
    /\ cb = "identity"
    /\ runs = <<>>
    /\ orig = <<>>
    /\ ri = 0
    /\ calls = <<>>
    /\ rets = <<>>
    /\ parasDone = 0
    /\ pass = "idle"

\* a pass starts on its first paragraph
EngInit ==
    /\ kind \in {"pptx", "docx"}
    /\ cb \in Callbacks
    /\ runs \in Paragraphs(MaxRuns) \cup {CiaoSonoIo}
    /\ orig = runs
    /\ ri = 0
    /\ calls = FreshLog(runs)
    /\ rets = FreshRets(runs)
    /\ parasDone = 0
    /\ pass = "running"

\* the run the loop is at
InLoop == pass = "running" /\ ri < Len(runs)

\* EnhancedDocumentProcessor.process_paragraph: `if not paragraph.text.strip(): return`
SkipEmptyParagraph ==
    /\ InLoop
    /\ kind = "docx"
    /\ ri = 0
    /\ ~Truthy(Strip(ParagraphText(runs)))
    /\ ri' = Len(runs)
    /\ UNCHANGED <<kind, cb, runs, orig, calls, rets, parasDone, pass>>
    /\ UNCHANGED <<predVars, valVars, fmtVars, markVars, shapeVars, orderVars, smVars, idVars, svcVars>>

\* one iteration of the loop on a run that is not translated
SkipRun ==
    /\ InLoop
    /\ kind = "docx" => Truthy(Strip(ParagraphText(runs)))
    /\ ~RunEligible(kind, runs[ri + 1].text)
    /\ ri' = ri + 1
    /\ UNCHANGED <<kind, cb, runs, orig, calls, rets, parasDone, pass>>
    /\ UNCHANGED <<predVars, valVars, fmtVars, markVars, shapeVars, orderVars, smVars, idVars, svcVars>>

\* one iteration of the loop: translate_func returns and the run text is rewritten
TranslateRun ==
    /\ InLoop
    /\ kind = "docx" => Truthy(Strip(ParagraphText(runs)))
    /\ LET i == ri + 1
           original_text == runs[i].text
           r == TranslateFunc(cb, CoreText(original_text))
       IN /\ RunEligible(kind, original_text)
          /\ r.ok
          /\ calls' = [calls EXCEPT ![i] = [called |-> TRUE, arg |-> CoreText(original_text)]]
          /\ rets' = [rets EXCEPT ![i] = [st |-> "ok", val |-> r.val]]
          /\ runs' = SetRunText(runs, i, TranslatedText(original_text, r.val))
          /\ ri' = i
    /\ UNCHANGED <<kind, cb, orig, parasDone, pass>>
    /\ UNCHANGED <<predVars, valVars, fmtVars, markVars, shapeVars, orderVars, smVars, idVars, svcVars>>

\* one iteration of the loop: translate_func raises.  Nothing in
\* _translate_paragraph_runs catches it; process_paragraph / process_shape log
\* and re-raise, translate_document / translate_presentation log and re-raise.
TranslateRunRaises ==
    /\ InLoop
    /\ kind = "docx" => Truthy(Strip(ParagraphText(runs)))
    /\ LET i == ri + 1
           original_text == runs[i].text
           r == TranslateFunc(cb, CoreText(original_text))
       IN /\ RunEligible(kind, original_text)
          /\ ~r.ok
          /\ calls' = [calls EXCEPT ![i] = [called |-> TRUE, arg |-> CoreText(original_text)]]
          /\ rets' = [rets EXCEPT ![i] = [st |-> "raised", val |-> <<>>]]
    /\ pass' = "failed"
    /\ UNCHANGED <<kind, cb, runs, orig, ri, parasDone>>
    /\ UNCHANGED <<predVars, valVars, fmtVars, markVars, shapeVars, orderVars, smVars, idVars, svcVars>>

\* the paragraph loop ended and the pass goes on to the next paragraph
NextParagraph ==
    /\ pass = "running"
    /\ ri = Len(runs)
    /\ parasDone + 1 < MaxParas
    /\ \E p \in SampleParagraphs :
          /\ runs' = p
          /\ orig' = p
          /\ calls' = FreshLog(p)
          /\ rets' = FreshRets(p)
    /\ ri' = 0
    /\ parasDone' = parasDone + 1
    /\ UNCHANGED <<kind, cb, pass>>
    /\ UNCHANGED <<predVars, valVars, fmtVars, markVars, shapeVars, orderVars, smVars, idVars, svcVars>>

\* the last paragraph's loop ended: document.save(output_path)
SaveDocument ==
    /\ pass = "running"
    /\ ri = Len(runs)
    /\ parasDone' = parasDone + 1
    /\ pass' = "saved"
    /\ UNCHANGED <<kind, cb, runs, orig, ri, calls, rets>>
    /\ UNCHANGED <<predVars, valVars, fmtVars, markVars, shapeVars, orderVars, smVars, idVars, svcVars>>

-----------------------------------------------------------------------------
(* FormattingManager (PowerPoint): capture and apply *)

\* _get_color_format_info(color)
GetColorFormatInfo(color) ==
    LET info == [type |-> color.type,
                 rgb |-> color.rgb,
                 theme_color |-> IF color.theme_color = Some("NOT_THEME_COLOR")
                                 THEN None ELSE color.theme_color,
                 brightness |-> color.brightness]
    IN IF info.rgb = None /\ info.theme_color = None /\ info.brightness = None
       THEN None ELSE Some(info)

\* _get_language_id(font): a non-standard code makes font.language_id raise
\* ValueError, and English is recorded in its place
GetLanguageId(f) ==
    IF f.language_id = "nonstd" THEN Some("en-US") ELSE Some(f.language_id)

\* collect_run_formatting(run), no paragraph given
CollectRunFormattingPptx(f) ==
    [font_name |-> f.font_name,
     font_size |-> f.font_size,
     bold |-> f.bold,
     italic |-> f.italic,
     underline |-> f.underline,
     color_format |-> GetColorFormatInfo(f.color),
     language_id |-> GetLanguageId(f),
     spacing |-> None,
     alignment |-> None,
     level |-> None]

\* font_color.rgb = v
SetRgb(color, v) ==
    IF color.type = Some(1)
    THEN [color EXCEPT !.rgb = Some(v)]
    ELSE [type |-> Some(1), rgb |-> Some(v), theme_color |-> None, brightness |-> Some(0)]

\* font_color.theme_color = v
SetThemeColor(color, v) ==
    IF color.type = Some(2)
    THEN [color EXCEPT !.theme_color = Some(v)]
    ELSE [type |-> Some(2), rgb |-> None, theme_color |-> Some(v), brightness |-> Some(0)]

RECURSIVE DropLeadingZeros(_)
DropLeadingZeros(h) ==
    IF Len(h) > 1 /\ Head(h) = "0" THEN DropLeadingZeros(Tail(h)) ELSE h

\* hex(v)[2:]: raises TypeError unless v is an int; an int loses its leading zeros
HexOf(v) ==
    IF v.isint THEN [ok |-> TRUE, val |-> DropLeadingZeros(v.hex)]
    ELSE [ok |-> FALSE, val |-> <<>>]

\* RGBColor.from_string(s): int(s[:2], 16), int(s[2:4], 16), int(s[4:], 16);
\* int('', 16) raises ValueError
RGBColorFromString(s) ==
    IF Len(s) < 5 THEN [ok |-> FALSE, val |-> RGBColor(<<>>)]
    ELSE [ok |-> TRUE,
          val |-> RGBColor(SubSeq(s, 1, 4)
                           \o (IF Len(s) = 5 THEN <<"0", s[5]>> ELSE SubSeq(s, 5, 6)))]

\* the brightness setter accepts -1.0 .. 1.0 (here in percent)
BrightnessValid(b) == b >= -100 /\ b <= 100

\* the colour kind and the brightness a record holds, whatever it was taken from
ColorInfoPool ==
    [type : {None, Some(0), Some(1)},
     rgb : {None,
            Some([isint |-> TRUE, hex |-> <<"F", "F", "0", "0", "0", "0">>]),
            Some([isint |-> TRUE, hex |-> <<"0", "0", "F", "F", "0", "0">>]),
            Some(RGBColor(<<"F", "F", "0", "0", "0", "0">>))},
     theme_color : {None, Some("ACCENT_1"), Some("NOT_THEME_COLOR")},
     brightness : {None, Some(40), Some(150)}]

\* an application that writes the brightness whether or not a colour kind
\* was written
ApplyColorFormat_BrightnessAlways(color, color_format) ==
    IF color_format = None THEN color
    ELSE
    LET info == color_format[1]
        h == HexOf(info.rgb[1])
        c == RGBColorFromString(h.val)
        rgbBranch == info.type = Some(0) /\ info.rgb # None
        themeBranch == ~rgbBranch /\ info.type = Some(1) /\ info.theme_color # None
    IN  IF rgbBranch /\ ~(h.ok /\ c.ok) THEN color
        ELSE
        LET has_color == rgbBranch \/ (themeBranch /\ info.theme_color # Some("NOT_THEME_COLOR"))
            c1 == IF rgbBranch THEN SetRgb(color, c.val)
                  ELSE IF has_color THEN SetThemeColor(color, info.theme_color[1])
                  ELSE color
        IN IF info.brightness # None /\ BrightnessValid(info.brightness[1])
           THEN [c1 EXCEPT !.brightness = info.brightness]
           ELSE c1

\* _apply_color_format(font_color, color_info)
ApplyColorFormat(color, color_format) ==
    IF color_format = None THEN color
    ELSE
    LET info == color_format[1]
        h == HexOf(info.rgb[1])
        c == RGBColorFromString(h.val)
        rgbBranch == info.type = Some(0) /\ info.rgb # None
        themeBranch == ~rgbBranch /\ info.type = Some(1) /\ info.theme_color # None
    IN  IF rgbBranch /\ ~(h.ok /\ c.ok) THEN color
        ELSE
        LET has_color == rgbBranch \/ (themeBranch /\ info.theme_color # Some("NOT_THEME_COLOR"))
            c1 == IF rgbBranch THEN SetRgb(color, c.val)
                  ELSE IF has_color THEN SetThemeColor(color, info.theme_color[1])
                  ELSE color
        IN IF has_color /\ info.brightness # None /\ BrightnessValid(info.brightness[1])
           THEN [c1 EXCEPT !.brightness = info.brightness]
           ELSE c1

\* Python truthiness of an optional str and of an optional number
TruthyStr(o) == o # None /\ o # Some("")
TruthyNum(o) == o # None /\ o # Some(0)

\* apply_run_formatting(run, formatting)
ApplyRunFormattingPptx(f, formatting) ==
    [f EXCEPT
       !.font_name = IF TruthyStr(formatting.font_name) THEN formatting.font_name ELSE @,
       !.font_size = IF TruthyNum(formatting.font_size) THEN formatting.font_size ELSE @,
       !.bold = formatting.bold,
       !.italic = formatting.italic,
       !.underline = formatting.underline,
       !.color = ApplyColorFormat(@, formatting.color_format),
       !.language_id = IF formatting.language_id # None
                       THEN (IF formatting.language_id[1] = "nonstd" THEN "en-US"
                             ELSE formatting.language_id[1])
                       ELSE @]

-----------------------------------------------------------------------------
(* WordFormattingManager: capture and apply *)

\* str(rgb): the six hex digits of an RGBColor
StrOfRgb(v) == v.hex

\* _get_color_info(font): {'rgb': str(rgb)} and/or {'theme_color': ...}, or None
GetColorInfo(color) ==
    LET info == [rgb |-> IF color.rgb # None THEN Some(StrOfRgb(color.rgb[1])) ELSE None,
                 theme_color |-> color.theme_color]
    IN IF info.rgb = None /\ info.theme_color = None THEN None ELSE Some(info)

\* font.size.pt, in half points: a Length of EMU divided by 12700
PtOfLength(emu) == emu \div 6350

\* Pt(points): int(points * 12700) EMU
LengthOfPt(halfpoints) == halfpoints * 6350

\* collect_run_formatting(run), no paragraph given
CollectRunFormattingDocx(f) ==
    [font_name |-> f.font_name,
     font_size |-> IF TruthyNum(f.font_size) THEN Some(PtOfLength(f.font_size[1])) ELSE None,
     bold |-> f.bold,
     italic |-> f.italic,
     underline |-> f.underline,
     color |-> GetColorInfo(f.color),
     highlight_color |-> f.highlight_color,
     style |-> f.style,
     strike |-> f.strike]

\* _apply_color_info(font, color_info)
ApplyColorInfo(color, color_info) ==
    IF color_info = None THEN color
    ELSE LET info == color_info[1] IN
         IF info.rgb # None
         THEN (LET c == RGBColorFromString(info.rgb[1]) IN
               IF c.ok THEN SetRgb(color, c.val) ELSE color)
         ELSE IF info.theme_color # None
         THEN SetThemeColor(color, info.theme_color[1])
         ELSE color

\* an apply that writes the stored point size without Pt()
ApplyRunFormattingDocx_NoPt(f, formatting) ==
    [f EXCEPT !.font_size = IF TruthyNum(formatting.font_size)
                            THEN formatting.font_size ELSE @]

\* apply_run_formatting(run, formatting)
ApplyRunFormattingDocx(f, formatting) ==
    [f EXCEPT
       !.font_name = IF TruthyStr(formatting.font_name) THEN formatting.font_name ELSE @,
       !.font_size = IF TruthyNum(formatting.font_size)
                     THEN Some(LengthOfPt(formatting.font_size[1])) ELSE @,
       !.bold = IF formatting.bold # None THEN formatting.bold ELSE @,
       !.italic = IF formatting.italic # None THEN formatting.italic ELSE @,
       !.underline = IF formatting.underline # None THEN formatting.underline ELSE @,
       !.strike = IF formatting.strike # None THEN formatting.strike ELSE @,
       !.color = ApplyColorInfo(@, formatting.color),
       !.highlight_color = IF formatting.highlight_color # None
                           THEN formatting.highlight_color ELSE @,
       !.style = IF TruthyStr(formatting.style) THEN formatting.style ELSE @]

-----------------------------------------------------------------------------
(* Capture-then-apply harness *)

\* colors a python-pptx run can have, and colors a python-docx run can have
PptxColors == {ColorNone, ColorRed, ColorDark, ColorTheme}
DocxColors == {ColorNone,
               [ColorRed EXCEPT !.brightness = None],
               [ColorTheme EXCEPT !.brightness = None]}

\* the run of the round-trip example: bold, not italic, explicit RGB, 14 pt
ExampleRun(k) ==
    [FmtBold EXCEPT !.color = IF k = "pptx" THEN ColorRed
                              ELSE [ColorRed EXCEPT !.brightness = None]]

\* the runs capture and apply are tried on
FmtRuns(k) ==
    {ExampleRun(k)} \cup
    {[font_name |-> fn, font_size |-> fs, bold |-> b, italic |-> it,
      underline |-> None, color |-> c, language_id |-> l,
      strike |-> st, highlight_color |-> None, style |-> sty] :
        fn \in {None, Some("Arial")},
        fs \in {None, Some(133350)},
        b \in {None, Some(TRUE), Some(FALSE)},
        it \in {None, Some(TRUE)},
        c \in (IF k = "pptx" THEN PptxColors ELSE DocxColors),
        l \in (IF k = "pptx" THEN {"NONE", "it-IT", "nonstd"} ELSE {"NONE"}),
        st \in (IF k = "pptx" THEN {None} ELSE {None, Some(TRUE)}),
        sty \in (IF k = "pptx" THEN {None} ELSE {None, Some("Emphasis")})}

NoRec == [captured |-> FALSE]

\* attribute reads of a malformed run that raise
Faults == {"none", "font_size", "color"}

\* WordRunFormatting(): every field at its default
EmptyWordRunFormatting ==
    [font_name |-> None, font_size |-> None, bold |-> None, italic |-> None,
     underline |-> None, color |-> None, highlight_color |-> None,
     style |-> None, strike |-> None]

\* collect_run_formatting(run) on a run whose attribute flt cannot be read.
\* PowerPoint: font.size and font.color / color.type are read outside any try.
\* Word: _get_color_info catches and returns None; any other failure reaches
\* the outer except, which returns an empty WordRunFormatting.
CaptureOutcome(k, f, flt) ==
    IF flt = "none"
    THEN [raised |-> FALSE,
          rec |-> IF k = "pptx" THEN CollectRunFormattingPptx(f)
                  ELSE CollectRunFormattingDocx(f)]
    ELSE IF k = "pptx"
    THEN [raised |-> TRUE, rec |-> NoRec]
    ELSE IF flt = "color"
    THEN [raised |-> FALSE, rec |-> [CollectRunFormattingDocx(f) EXCEPT !.color = None]]
    ELSE [raised |-> FALSE, rec |-> EmptyWordRunFormatting]

\* records captured from plain runs with every tri-state value of bold
RecordPool(k) ==
    {IF k = "pptx" THEN CollectRunFormattingPptx(r) ELSE CollectRunFormattingDocx(r) :
        r \in {x \in FmtRuns(k) :
                 /\ x.font_name = None /\ x.font_size = None /\ x.color = ColorNone
                 /\ x.language_id = "NONE" /\ x.strike = None /\ x.style = None}}

\* a record that holds a colour and nothing else
ColorOnlyRecord(info) ==
    [font_name |-> None, font_size |-> None, bold |-> None, italic |-> None,
     underline |-> None, color_format |-> Some(info), language_id |-> None,
     spacing |-> None, alignment |-> None, level |-> None]

FmtIdle ==
    /\ fmtKind = "pptx"
    /\ run0 = FmtPlain
    /\ run1 = FmtPlain
    /\ rec = NoRec
    /\ fault = "none"
    /\ fmtPc = "idle"

FmtInit ==
    /\ fmtKind \in {"pptx", "docx"}
    /\ run0 \in FmtRuns(fmtKind)
    /\ run1 = run0
    /\ rec = NoRec
    /\ fault \in Faults
    /\ fmtPc = "start"

\* record = collect_run_formatting(run)
Capture ==
    /\ fmtPc = "start"
    /\ LET out == CaptureOutcome(fmtKind, run1, fault)
       IN /\ rec' = IF out.raised THEN NoRec ELSE out.rec
          /\ fmtPc' = IF out.raised THEN "capture_raised" ELSE "captured"
    /\ UNCHANGED <<fmtKind, run0, run1, fault>>
    /\ UNCHANGED <<predVars, engVars, valVars, markVars, shapeVars, orderVars, smVars, idVars, svcVars>>

\* apply_run_formatting(run, record), record the one captured from run
Apply ==
    /\ fmtPc = "captured"
    /\ run1' = IF fmtKind = "pptx" THEN ApplyRunFormattingPptx(run1, rec)
               ELSE ApplyRunFormattingDocx(run1, rec)
    /\ fmtPc' = "applied"
    /\ UNCHANGED <<fmtKind, run0, rec, fault>>
    /\ UNCHANGED <<predVars, engVars, valVars, markVars, shapeVars, orderVars, smVars, idVars, svcVars>>

\* apply_run_formatting(run, record), record captured from some other run
ApplyRecord ==
    /\ fmtPc = "start"
    /\ fault = "none"
    /\ \E r \in RecordPool(fmtKind) :
          /\ rec' = r
          /\ run1' = IF fmtKind = "pptx" THEN ApplyRunFormattingPptx(run1, r)
                     ELSE ApplyRunFormattingDocx(run1, r)
    /\ fmtPc' = "applied_record"
    /\ UNCHANGED <<fmtKind, run0, fault>>
    /\ UNCHANGED <<predVars, engVars, valVars, markVars, shapeVars, orderVars, smVars, idVars, svcVars>>

\* self._apply_color_format(run.font.color, color_info), color_info any record
ApplyColor ==
    /\ fmtPc = "start"
    /\ fault = "none"
    /\ fmtKind = "pptx"
    /\ \E info \in ColorInfoPool :
          /\ rec' = ColorOnlyRecord(info)
          /\ run1' = [run1 EXCEPT !.color = ApplyColorFormat(@, Some(info))]
    /\ fmtPc' = "applied_color"
    /\ UNCHANGED <<fmtKind, run0, fault>>
    /\ UNCHANGED <<predVars, engVars, valVars, markVars, shapeVars, orderVars, smVars, idVars, svcVars>>

-----------------------------------------------------------------------------
(* WordFormatValidator *)

Min(a, b) == IF a < b THEN a ELSE b

\* paragraphs of the validated documents
P_hello2 == <<MkRun(1, T_hello \o <<" ">>, FmtPlain), MkRun(2, T_world, FmtBold)>>
P_hello3 == <<MkRun(1, T_hello, FmtPlain), MkRun(2, <<" ">>, FmtPlain), MkRun(3, T_world, FmtBold)>>
P_ciaoSp == <<MkRun(1, <<" ">> \o T_ciao \o <<" ">>,
                    [FmtPlain EXCEPT !.font_size = Some(177800), !.color = ColorRed])>>
P_ciao   == <<MkRun(1, T_ciao, FmtPlain)>>
P_blank  == <<MkRun(1, <<" ">>, FmtPlain)>>
P_blank2 == <<MkRun(1, <<" ">>, FmtPlain), MkRun(2, <<" ">>, FmtBold)>>
ValParagraphs == {P_hello2, P_hello3, P_ciaoSp, P_ciao, P_blank, P_blank2}

\* document.paragraphs of every document of at most n paragraphs
ParagraphLists(n) == UNION {[1..k -> ValParagraphs] : k \in 0..n}

\* document.tables of the original and of the translated document; a table is
\* its rows, a row its number of cells
TablePairs ==
    {<< <<>>, <<>> >>,
     << << <<2, 2>> >>, << <<2, 2>> >> >>,
     << << <<2, 2>> >>, << <<2>> >> >>,
     << << <<2, 2>> >>, << <<2, 1>> >> >>,
     << << <<2, 2>> >>, <<>> >>}

Msg(m, a, b) == [msg |-> m, a |-> a, b |-> b]

\* _compare_run_formatting(original_run, translated_run)
CompareRunFormatting(original_run, translated_run) ==
    LET orig_format == CollectRunFormattingDocx(original_run.fmt)
        trans_format == CollectRunFormattingDocx(translated_run.fmt)
    IN /\ orig_format.bold = trans_format.bold
       /\ orig_format.italic = trans_format.italic
       /\ orig_format.underline = trans_format.underline
       /\ orig_format.font_name = trans_format.font_name

RECURSIVE RunFormattingWarnings(_, _, _)
\* the inner loop of _validate_paragraph_formatting over zip(orig runs, trans runs)
RunFormattingWarnings(op, tp, i) ==
    IF i > Min(Len(op), Len(tp)) THEN <<>>
    ELSE (IF ~CompareRunFormatting(op[i], tp[i])
          THEN <<Msg("Run formatting mismatch detected", 0, 0)>> ELSE <<>>)
         \o RunFormattingWarnings(op, tp, i + 1)

RECURSIVE ValidateParagraphLoop(_, _, _, _)
\* the loop of _validate_paragraph_formatting over zip(original_paras, translated_paras)
ValidateParagraphLoop(ops, tps, i, acc) ==
    IF i > Min(Len(ops), Len(tps)) THEN acc
    ELSE
    LET op == ops[i]
        tp == tps[i]
    IN IF Truthy(Strip(ParagraphText(op))) /\ Truthy(Strip(ParagraphText(tp)))
       THEN ValidateParagraphLoop(ops, tps, i + 1,
              [warnings |-> acc.warnings
                            \o (IF Len(op) # Len(tp)
                                THEN <<Msg("Run count mismatch in paragraph", Len(op), Len(tp))>>
                                ELSE <<>>)
                            \o RunFormattingWarnings(op, tp, 1),
               formatting_matches |-> acc.formatting_matches
                                      + (IF Len(op) # Len(tp) THEN 0 ELSE 1),
               total_comparisons |-> acc.total_comparisons + 1])
       ELSE ValidateParagraphLoop(ops, tps, i + 1, acc)

\* a / b as a fraction
Frac(a, b) == [num |-> a, den |-> b]

RECURSIVE RowErrors(_, _, _, _)
\* the loop over zip(orig_table.rows, trans_table.rows)
RowErrors(ot, tt, table_idx, r) ==
    IF r > Min(Len(ot), Len(tt)) THEN <<>>
    ELSE (IF ot[r] # tt[r]
          THEN <<Msg("Table row column count mismatch", ot[r], tt[r])>> ELSE <<>>)
         \o RowErrors(ot, tt, table_idx, r + 1)

RECURSIVE TableErrors(_, _, _)
\* _validate_table_formatting(original_tables, translated_tables, report)
TableErrors(ots, tts, t) ==
    IF t > Min(Len(ots), Len(tts)) THEN <<>>
    ELSE (IF Len(ots[t]) # Len(tts[t])
          THEN <<Msg("Table row count mismatch", Len(ots[t]), Len(tts[t]))>> ELSE <<>>)
         \o RowErrors(ots[t], tts[t], t, 1)
         \o TableErrors(ots, tts, t + 1)

\* validate_document_structure(original_path, translated_path); ok: both load
ValidateDocumentStructure(od, td, ok) ==
    IF ~ok
    THEN [structure_match |-> FALSE, warnings |-> <<>>,
          errors |-> <<Msg("Validation failed", 0, 0)>>,
          formatting_preservation_score |-> Frac(0, 1)]
    ELSE
    LET paraMismatch == Len(od.paragraphs) # Len(td.paragraphs)
        tableMismatch == Len(od.tables) # Len(td.tables)
        loop == ValidateParagraphLoop(od.paragraphs, td.paragraphs, 1,
                  [warnings |-> <<>>, formatting_matches |-> 0, total_comparisons |-> 0])
    IN [structure_match |-> ~paraMismatch /\ ~tableMismatch,
        warnings |-> loop.warnings,
        errors |-> (IF paraMismatch
                    THEN <<Msg("Paragraph count mismatch", Len(od.paragraphs), Len(td.paragraphs))>>
                    ELSE <<>>)
                   \o (IF tableMismatch
                       THEN <<Msg("Table count mismatch", Len(od.tables), Len(td.tables))>>
                       ELSE <<>>)
                   \o (IF od.tables # <<>> /\ td.tables # <<>>
                       THEN TableErrors(od.tables, td.tables, 1) ELSE <<>>),
        formatting_preservation_score |->
            IF loop.total_comparisons > 0
            THEN Frac(loop.formatting_matches, loop.total_comparisons)
            ELSE Frac(1, 1)]

RECURSIVE QualityLoop(_, _, _, _)
\* the loop of validate_translation_quality over zip(original paragraphs, translated paragraphs)
QualityLoop(ops, tps, i, acc) ==
    IF i > Min(Len(ops), Len(tps)) THEN acc
    ELSE
    LET orig_text == Strip(ParagraphText(ops[i]))
        trans_text == Strip(ParagraphText(tps[i]))
    IN IF Truthy(orig_text)
       THEN QualityLoop(ops, tps, i + 1,
              [total_paragraphs |-> acc.total_paragraphs + 1,
               unchanged_count |-> acc.unchanged_count
                                   + (IF orig_text = trans_text THEN 1 ELSE 0),
               empty_translations |-> acc.empty_translations
                                      + (IF ~Truthy(trans_text) THEN 1 ELSE 0),
               issues |-> acc.issues
                          \o (IF orig_text = trans_text
                              THEN <<Msg("Unchanged text", i, i)>> ELSE <<>>)
                          \o (IF ~Truthy(trans_text)
                              THEN <<Msg("Empty translation for", i, i)>> ELSE <<>>)])
       ELSE QualityLoop(ops, tps, i + 1, acc)

\* a quality check whose score forgets the emptied paragraphs
ValidateTranslationQuality_IgnoreEmpty(od, td, ok) ==
    LET loop == QualityLoop(od.paragraphs, td.paragraphs, 1,
                  [total_paragraphs |-> 0, unchanged_count |-> 0,
                   empty_translations |-> 0, issues |-> <<>>])
    IN [quality_score |->
            IF loop.total_paragraphs > 0
            THEN Frac(loop.total_paragraphs - loop.unchanged_count, loop.total_paragraphs)
            ELSE Frac(1, 1),
        issues |-> loop.issues,
        total_paragraphs |-> loop.total_paragraphs,
        unchanged_paragraphs |-> loop.unchanged_count,
        empty_translations |-> loop.empty_translations]

\* validate_translation_quality(original_path, translated_path); ok: both load
ValidateTranslationQuality(od, td, ok) ==
    IF ~ok
    THEN [quality_score |-> Frac(0, 1),
          issues |-> <<Msg("Quality validation failed", 0, 0)>>,
          total_paragraphs |-> 0, unchanged_paragraphs |-> 0, empty_translations |-> 0]
    ELSE
    LET loop == QualityLoop(od.paragraphs, td.paragraphs, 1,
                  [total_paragraphs |-> 0, unchanged_count |-> 0,
                   empty_translations |-> 0, issues |-> <<>>])
    IN [quality_score |->
            IF loop.total_paragraphs > 0
            THEN Frac(loop.total_paragraphs - loop.unchanged_count - loop.empty_translations,
                      loop.total_paragraphs)
            ELSE Frac(1, 1),
        issues |-> loop.issues,
        total_paragraphs |-> loop.total_paragraphs,
        unchanged_paragraphs |-> loop.unchanged_count,
        empty_translations |-> loop.empty_translations]

\* the count of generate_formatting_report's loop: non-blank paragraphs of
\* more than one run among paras[i..]
RECURSIVE ComplexFormattingCount(_, _)
ComplexFormattingCount(paras, i) ==
    IF i > Len(paras) THEN 0
    ELSE (IF Truthy(Strip(ParagraphText(paras[i]))) /\ Len(paras[i]) > 1 THEN 1 ELSE 0)
         + ComplexFormattingCount(paras, i + 1)

\* generate_formatting_report(document_path); ok: the try body does not raise
GenerateFormattingReport(doc, ok) ==
    IF ~ok THEN [error |-> TRUE, total_paragraphs |-> 0, total_tables |-> 0,
                 complex_formatting_count |-> 0]
    ELSE [error |-> FALSE,
          total_paragraphs |-> Len(doc.paragraphs),
          total_tables |-> Len(doc.tables),
          complex_formatting_count |-> ComplexFormattingCount(doc.paragraphs, 1)]

\* a compare_documents that scores 0 when the original has no complex paragraph
CompareDocuments_ZeroWhenNone(od, td, okOrig, okTrans) ==
    LET original_report == GenerateFormattingReport(od, okOrig)
        translated_report == GenerateFormattingReport(td, okTrans)
        orig_complex == original_report.complex_formatting_count
        trans_complex == translated_report.complex_formatting_count
    IN [structure_preserved |->
            original_report.total_paragraphs = translated_report.total_paragraphs,
        formatting_preservation_score |->
            IF orig_complex > 0 THEN Frac(trans_complex, orig_complex) ELSE Frac(0, 1),
        differences |-> <<>>]

\* compare_documents(original_path, translated_path); a report that failed
\* is read with .get(key, 0)
CompareDocuments(od, td, okOrig, okTrans) ==
    LET original_report == GenerateFormattingReport(od, okOrig)
        translated_report == GenerateFormattingReport(td, okTrans)
        paraDiff == original_report.total_paragraphs # translated_report.total_paragraphs
        orig_complex == original_report.complex_formatting_count
        trans_complex == translated_report.complex_formatting_count
    IN [structure_preserved |-> ~paraDiff,
        formatting_preservation_score |->
            IF orig_complex > 0 THEN Frac(trans_complex, orig_complex) ELSE Frac(1, 1),
        differences |->
            (IF paraDiff
             THEN <<Msg("Paragraph count difference", original_report.total_paragraphs,
                        translated_report.total_paragraphs)>>
             ELSE <<>>)
            \o (IF orig_complex > 0 /\ trans_complex < orig_complex
                THEN <<Msg("Complex formatting loss", orig_complex, trans_complex)>>
                ELSE <<>>)]

NoReport == [done |-> FALSE]
EmptyDoc == [paragraphs |-> <<>>, tables |-> <<>>]

ValIdle ==
    /\ origDoc = EmptyDoc
    /\ transDoc = EmptyDoc
    /\ loadOk = TRUE
    /\ report = NoReport
    /\ quality = NoReport
    /\ badNode = 0
    /\ comparison = NoReport

\* two documents on disk; when one cannot be loaded there is nothing to walk.
\* Tables are tried with documents of at most one paragraph, a malformed
\* paragraph as the last one of the original.
ValInit ==
    /\ loadOk \in BOOLEAN
    /\ IF loadOk
       THEN \E ops \in ParagraphLists(MaxParas), tps \in ParagraphLists(MaxParas),
               tb \in TablePairs :
               /\ tb[1] = <<>> \/ (Len(ops) <= 1 /\ Len(tps) <= 1)
               /\ origDoc = [paragraphs |-> ops, tables |-> tb[1]]
               /\ transDoc = [paragraphs |-> tps, tables |-> tb[2]]
               /\ badNode \in {0, Len(ops)}
       ELSE origDoc = EmptyDoc /\ transDoc = EmptyDoc /\ badNode = 0
    /\ report = NoReport
    /\ quality = NoReport
    /\ comparison = NoReport

\* the walk over zip(original paragraphs, translated paragraphs) reads the
\* text of the malformed paragraph
ZipWalkReaches ==
    badNode \in 1..Min(Len(origDoc.paragraphs), Len(transDoc.paragraphs))

\* validator.validate_document_structure(original, translated)
ValidateStructure ==
    /\ report = NoReport
    /\ report' = [done |-> TRUE,
                  r |-> ValidateDocumentStructure(origDoc, transDoc,
                                                  loadOk /\ ~ZipWalkReaches)]
    /\ UNCHANGED <<origDoc, transDoc, loadOk, quality, badNode, comparison>>
    /\ UNCHANGED <<predVars, engVars, fmtVars, markVars, shapeVars, orderVars, smVars, idVars, svcVars>>

\* validator.validate_translation_quality(original, translated)
ValidateQuality ==
    /\ quality = NoReport
    /\ quality' = [done |-> TRUE,
                   r |-> ValidateTranslationQuality(origDoc, transDoc,
                                                    loadOk /\ ~ZipWalkReaches)]
    /\ UNCHANGED <<origDoc, transDoc, loadOk, report, badNode, comparison>>
    /\ UNCHANGED <<predVars, engVars, fmtVars, markVars, shapeVars, orderVars, smVars, idVars, svcVars>>

\* comparator.compare_documents(original, translated), after the two validations
CompareDocs ==
    /\ report # NoReport
    /\ quality # NoReport
    /\ comparison = NoReport
    /\ comparison' = [done |-> TRUE,
                      r |-> CompareDocuments(origDoc, transDoc,
                                             loadOk /\ badNode = 0, loadOk)]
    /\ UNCHANGED <<origDoc, transDoc, loadOk, report, quality, badNode>>
    /\ UNCHANGED <<predVars, engVars, fmtVars, markVars, shapeVars, orderVars, smVars, idVars, svcVars>>

-----------------------------------------------------------------------------
(* TextProcessor: positional format markers *)

\* the characters of the marked texts
MarkAlphabet == {" ", "tab", "a", "nl", "[", "P", "0", "]"}

RECURSIVE SplitLines(_)
\* str.split('\n'): the lines of a text, at least one
SplitLines(t) ==
    IF \A i \in 1..Len(t) : t[i] # "nl" THEN <<t>>
    ELSE LET k == CHOOSE i \in 1..Len(t) :
                     t[i] = "nl" /\ \A j \in 1..(i - 1) : t[j] # "nl"
         IN <<SubSeq(t, 1, k - 1)>> \o SplitLines(SubSeq(t, k + 1, Len(t)))

RECURSIVE JoinLines(_)
\* '\n'.join(lines)
JoinLines(ls) ==
    IF ls = <<>> THEN <<>>
    ELSE IF Len(ls) = 1 THEN ls[1]
    ELSE ls[1] \o <<"nl">> \o JoinLines(Tail(ls))

DecimalDigits == <<"0", "1", "2", "3", "4", "5", "6", "7", "8", "9">>

RECURSIVE StrOfNat(_)
\* str(n) of a natural number
StrOfNat(n) ==
    IF n < 10 THEN <<DecimalDigits[n + 1]>>
    ELSE StrOfNat(n \div 10) \o <<DecimalDigits[(n % 10) + 1]>>

\* f"[P{idx}]"
Marker(idx) == <<"[", "P">> \o StrOfNat(idx) \o <<"]">>

\* ' ' * n
Spaces(n) == [i \in 1..n |-> " "]

RECURSIVE LinePositions(_, _, _)
\* current_pos at the start of lines[i]
LinePositions(lines, i, pos) ==
    IF i > Len(lines) THEN <<>>
    ELSE <<pos>> \o LinePositions(lines, i + 1, pos + Len(lines[i]) + 1)

\* insert_format_markers(text): (marked_text, markers); markers by line index
InsertFormatMarkers(t) ==
    LET lines == SplitLines(t)
        pos == LinePositions(lines, 1, 0)
    IN [marked_text |->
            JoinLines([i \in 1..Len(lines) |-> Marker(i - 1) \o lines[i]]),
        markers |->
            [idx \in 0..(Len(lines) - 1) |->
                LET line == lines[idx + 1] IN
                [position |-> <<pos[idx + 1], pos[idx + 1] + Len(line)>>,
                 properties |->
                    [leading_spaces |-> Len(line) - Len(LStrip(line)),
                     trailing_spaces |-> Len(line) - Len(RStrip(line)),
                     is_blank |-> ~Truthy(Strip(line)),
                     original_text |-> line]]]]

\* length of the match of \[P\d+\] at the start of t, 0 when there is none
MarkerMatchLen(t) ==
    IF Len(t) >= 4 /\ t[1] = "[" /\ t[2] = "P" /\ t[3] \in DigitChars
    THEN LET k == CHOOSE j \in 3..Len(t) :
                     /\ \A m \in 3..j : t[m] \in DigitChars
                     /\ j < Len(t) => t[j + 1] \notin DigitChars
         IN IF k < Len(t) /\ t[k + 1] = "]" THEN k + 1 ELSE 0
    ELSE 0

RECURSIVE ReSubMarkers(_)
\* re.sub(r'\[P\d+\]', '', t): one pass, leftmost matches removed
ReSubMarkers(t) ==
    IF t = <<>> THEN <<>>
    ELSE LET n == MarkerMatchLen(t)
         IN IF n > 0 THEN ReSubMarkers(SubSeq(t, n + 1, Len(t)))
            ELSE <<Head(t)>> \o ReSubMarkers(Tail(t))

\* one line of the marker-dict branch of remove_format_markers
CleanLine(line, idx, markers) ==
    LET clean_line == ReSubMarkers(line)
    IN IF idx \in DOMAIN markers /\ ~markers[idx].properties.is_blank
       THEN Spaces(markers[idx].properties.leading_spaces) \o Strip(clean_line)
            \o Spaces(markers[idx].properties.trailing_spaces)
       ELSE clean_line

\* a remove_format_markers that looks the line's marker up without testing
\* whether it is there
RemoveFormatMarkers_Unguarded(t, markers) ==
    IF markers # None /\ DOMAIN markers[1] # {}
    THEN LET lines == SplitLines(t)
         IN IF \E i \in 1..Len(lines) : (i - 1) \notin DOMAIN markers[1]
            THEN [raised |-> TRUE, text |-> <<>>]
            ELSE [raised |-> FALSE,
                  text |-> JoinLines([i \in 1..Len(lines) |->
                                         CleanLine(lines[i], i - 1, markers[1])])]
    ELSE [raised |-> FALSE, text |-> ReSubMarkers(t)]

\* remove_format_markers(text, markers); markers is None or Some(dict)
RemoveFormatMarkers(t, markers) ==
    IF markers # None /\ DOMAIN markers[1] # {}
    THEN LET lines == SplitLines(t)
         IN [raised |-> FALSE,
             text |-> JoinLines([i \in 1..Len(lines) |->
                                    CleanLine(lines[i], i - 1, markers[1])])]
    ELSE [raised |-> FALSE, text |-> ReSubMarkers(t)]

\* "Line one\nLine two"
T_twoLines ==
    <<"L", "i", "n", "e", " ", "o", "n", "e", "nl", "L", "i", "n", "e", " ", "t", "w", "o">>

\* container texts: every text of at most MaxLen characters, and two samples
MarkTexts ==
    UNION {[1..k -> MarkAlphabet] : k \in 0..MaxLen}
    \cup {T_twoLines, <<"a", "[", "P", "1", "]">>}

\* what a callback may do with a marked text
MarkCallbacks == {"identity", "drop", "duplicate", "corrupt", "addline", "firstline", "empty"}

\* translate_func(marked_text)
MarkCallback(c, marked) ==
    CASE c = "identity"  -> marked
      [] c = "drop"      -> ReSubMarkers(marked)
      [] c = "duplicate" -> marked \o marked
      [] c = "corrupt"   -> Tail(marked)
      [] c = "addline"   -> marked \o <<"nl", " ", "a">>
      [] c = "firstline" -> SplitLines(marked)[1]
      [] c = "empty"     -> <<>>

MarkIdle ==
    /\ mText = <<>>
    /\ mMarked = <<>>
    /\ mMarkers = <<>>
    /\ mCb = "identity"
    /\ mRet = <<>>
    /\ mWith = FALSE
    /\ mClean = <<>>
    /\ mPc = "idle"

MarkInit ==
    /\ mText \in MarkTexts
    /\ mMarked = <<>>
    /\ mMarkers = <<>>
    /\ mCb \in MarkCallbacks
    /\ mRet = <<>>
    /\ mWith \in BOOLEAN
    /\ mClean = <<>>
    /\ mPc = "start"

\* marked_text, markers = insert_format_markers(text)
InsertMarkers ==
    /\ mPc = "start"
    /\ LET r == InsertFormatMarkers(mText)
       IN mMarked' = r.marked_text /\ mMarkers' = r.markers
    /\ mPc' = "marked"
    /\ UNCHANGED <<mText, mCb, mRet, mWith, mClean>>
    /\ UNCHANGED <<predVars, engVars, valVars, fmtVars, shapeVars, orderVars, smVars, idVars, svcVars>>

\* translated_text = translate_func(marked_text)
CallbackOnMarked ==
    /\ mPc = "marked"
    /\ mRet' = MarkCallback(mCb, mMarked)
    /\ mPc' = "translated"
    /\ UNCHANGED <<mText, mMarked, mMarkers, mCb, mWith, mClean>>
    /\ UNCHANGED <<predVars, engVars, valVars, fmtVars, shapeVars, orderVars, smVars, idVars, svcVars>>

\* clean_text = remove_format_markers(translated_text[, markers])
RemoveMarkers ==
    /\ mPc = "translated"
    /\ LET r == RemoveFormatMarkers(mRet, IF mWith THEN Some(mMarkers) ELSE None)
       IN /\ mClean' = r.text
          /\ mPc' = IF r.raised THEN "remove_raised" ELSE "removed"
    /\ UNCHANGED <<mText, mMarked, mMarkers, mCb, mRet, mWith>>
    /\ UNCHANGED <<predVars, engVars, valVars, fmtVars, shapeVars, orderVars, smVars, idVars, svcVars>>

-----------------------------------------------------------------------------
(* ShapeProcessor: container-level reconstruction of text frames *)

\* paragraph.alignment (None when not set) and paragraph.level
ParaProps(a, l) == [alignment |-> a, level |-> l]

\* the paragraphs of the generated text frames: the first one centered, each
\* one a level deeper than the one before
PropsFor(paras) ==
    [i \in 1..Len(paras) |-> ParaProps(IF i = 1 THEN Some("CENTER") ELSE None, i - 1)]

\* a shape with a text frame: shape.shape_id, text_frame.paragraphs and the
\* alignment and level of each paragraph
Shape(id, paras) == [shape_id |-> id, paragraphs |-> paras, props |-> PropsFor(paras)]

\* text frames: a title, a body of two paragraphs, a blank one, and one with
\* a paragraph without runs and a vertical tab inside a run
TF_title == <<<<MkRun(1, T_hello, FmtBold)>>>>
TF_body  == <<P_hello2, P_ciao>>
TF_blank == <<P_blank>>
TF_gap   == <<P_ciao, <<>>, <<MkRun(1, T_io \o <<"vt">> \o T_me, FmtPlain)>>>>

\* slides; PowerPoint numbers the shapes of every slide on its own, so one
\* shape id is found on several slides
SlidePool == {<<Shape(2, TF_title)>>,
              <<Shape(2, TF_title), Shape(3, TF_body)>>,
              <<Shape(4, TF_body)>>,
              <<Shape(2, TF_blank), Shape(3, TF_gap)>>}

\* presentations of one or two slides
Decks == {<<a>> : a \in SlidePool} \cup {<<a, b>> : a \in SlidePool, b \in SlidePool}

\* run.text.replace('\v', '\n')
ReplaceVt(t) == [i \in 1..Len(t) |-> IF t[i] = "vt" THEN "nl" ELSE t[i]]

RECURSIVE ParaTextVt(_)
\* para_text of get_text_frame_content's inner loop
ParaTextVt(rs) ==
    IF rs = <<>> THEN <<>> ELSE ReplaceVt(Head(rs).text) \o ParaTextVt(Tail(rs))

RECURSIVE NonBlankTexts(_)
\* the paragraphs list of get_text_frame_content
NonBlankTexts(paras) ==
    IF paras = <<>> THEN <<>>
    ELSE (IF Truthy(Strip(ParaTextVt(Head(paras)))) THEN <<ParaTextVt(Head(paras))>> ELSE <<>>)
         \o NonBlankTexts(Tail(paras))

RECURSIVE AllTextsVt(_)
\* the paragraph texts with no paragraph left out
AllTextsVt(paras) ==
    IF paras = <<>> THEN <<>> ELSE <<ParaTextVt(Head(paras))>> \o AllTextsVt(Tail(paras))

\* a get_text_frame_content that keeps the blank paragraphs
GetTextFrameContent_KeepBlank(paras) == JoinLines(AllTextsVt(paras))

\* get_text_frame_content(text_frame)
GetTextFrameContent(paras) == JoinLines(NonBlankTexts(paras))

RECURSIVE RunCount(_)
\* the runs of a container
RunCount(paras) ==
    IF paras = <<>> THEN 0 ELSE Len(Head(paras)) + RunCount(Tail(paras))

\* collect_run_formatting(run, paragraph): the record also takes the
\* alignment and the level of the paragraph
CollectInParagraph(f, pp) ==
    [CollectRunFormattingPptx(f) EXCEPT !.alignment = pp.alignment,
                                        !.level = Some(pp.level)]

RECURSIVE CollectAll(_, _)
\* the records store_paragraph_formatting appends, paragraph after paragraph
CollectAll(paras, props) ==
    IF paras = <<>> THEN <<>>
    ELSE [i \in 1..Len(Head(paras)) |-> CollectInParagraph(Head(paras)[i].fmt, Head(props))]
         \o CollectAll(Tail(paras), Tail(props))

\* format_maps[shape_id], the empty list when the id is not there
StoredFormats(fm, id) == IF id \in DOMAIN fm THEN fm[id] ELSE <<>>

\* store_paragraph_formatting for every paragraph of the container
StoreParagraphFormatting(fm, id, paras, props) ==
    [k \in DOMAIN fm \cup {id} |->
        IF k = id THEN StoredFormats(fm, id) \o CollectAll(paras, props) ELSE fm[k]]

\* the one paragraph text_frame.clear() leaves: no runs
EmptyParagraph == <<>>

\* the font of a run that p.text = ... has just created: nothing set
NewRunFmt == [font_name |-> None, font_size |-> None,
              bold |-> None, italic |-> None, underline |-> None,
              color |-> ColorNone, language_id |-> "none",
              strike |-> None, highlight_color |-> None, style |-> None]

RECURSIVE AddParagraphs(_, _, _, _, _)
\* the loop of _update_text_frame over new_text.split('\n'), from line idx on
AddParagraphs(lines, idx, paras, format_index, stored) ==
    IF idx > Len(lines) THEN paras
    ELSE IF Truthy(Strip(lines[idx]))
    THEN LET hit == format_index < Len(stored)
             f == IF hit THEN ApplyRunFormattingPptx(NewRunFmt, stored[format_index + 1])
                  ELSE NewRunFmt
             p == <<MkRun(1, Strip(lines[idx]), f)>>
         IN AddParagraphs(lines, idx + 1, Append(paras, p),
                          IF hit THEN format_index + 1 ELSE format_index, stored)
    ELSE AddParagraphs(lines, idx + 1, paras, format_index, stored)

\* _update_text_frame(text_frame, new_text, context_id, props): the
\* paragraphs of the text frame afterwards
UpdateTextFrame(paras, new_text, stored) ==
    IF ~Truthy(Strip(new_text)) THEN paras
    ELSE AddParagraphs(SplitLines(new_text), 1, <<EmptyParagraph>>, 0, stored)

\* _apply_paragraph_properties(p, properties)
ApplyParagraphProperties(pp, properties) ==
    ParaProps(IF properties.alignment # None THEN properties.alignment ELSE pp.alignment,
              properties.level)

\* the paragraph-level part of apply_paragraph_formatting(p, id, format_index)
ApplyStoredParagraphProps(pp, stored, format_index) ==
    IF format_index < Len(stored)
    THEN LET r == stored[format_index + 1]
         IN ParaProps(IF r.alignment # None THEN r.alignment ELSE pp.alignment,
                      IF r.level # None THEN r.level[1] ELSE pp.level)
    ELSE pp

RECURSIVE AddParagraphProps(_, _, _, _, _, _)
\* the alignment and level the paragraphs added by _update_text_frame end
\* with; tfp is text_frame_props['paragraphs']
AddParagraphProps(lines, idx, props, format_index, stored, tfp) ==
    IF idx > Len(lines) THEN props
    ELSE IF Truthy(Strip(lines[idx]))
    THEN LET p0 == ParaProps(None, 0)
             p1 == IF idx - 1 < Len(tfp) THEN ApplyParagraphProperties(p0, tfp[idx]) ELSE p0
             p2 == ApplyStoredParagraphProps(p1, stored, format_index)
         IN AddParagraphProps(lines, idx + 1, Append(props, p2),
                              IF format_index < Len(stored) THEN format_index + 1
                              ELSE format_index, stored, tfp)
    ELSE AddParagraphProps(lines, idx + 1, props, format_index, stored, tfp)

\* _update_text_frame: the alignment and level of the paragraphs afterwards;
\* the paragraph clear() leaves keeps its own
UpdateTextFrameProps(props, new_text, stored) ==
    IF ~Truthy(Strip(new_text)) THEN props
    ELSE AddParagraphProps(SplitLines(new_text), 1, SubSeq(props, 1, 1), 0, stored, props)

NotProcessed == [done |-> FALSE]

ShapeIdle ==
    /\ prs = <<>>
    /\ format_maps = <<>>
    /\ shCb = "identity"
    /\ slide_idx = 1
    /\ shape_idx = 1
    /\ processed = NotProcessed

\* a pass starts on the first shape of the first slide, with a fresh manager
ShapeInit ==
    /\ prs \in Decks
    /\ format_maps = <<>>
    /\ shCb \in MarkCallbacks
    /\ slide_idx = 1
    /\ shape_idx = 1
    /\ processed = NotProcessed

\* the pass is at a shape
AtShape == slide_idx <= Len(prs) /\ shape_idx <= Len(prs[slide_idx])

\* _process_text_frame on a text frame without text: returns at once
SkipTextFrame ==
    /\ AtShape
    /\ ~Truthy(Strip(GetTextFrameContent(prs[slide_idx][shape_idx].paragraphs)))
    /\ shape_idx' = shape_idx + 1
    /\ UNCHANGED <<prs, format_maps, shCb, slide_idx, processed>>
    /\ UNCHANGED <<predVars, engVars, valVars, fmtVars, markVars, orderVars, smVars, idVars, svcVars>>

\* _process_text_frame: capture, mark, translate, unmark, rebuild
ProcessTextFrame ==
    /\ AtShape
    /\ LET shape == prs[slide_idx][shape_idx]
           content == GetTextFrameContent(shape.paragraphs)
           fm == StoreParagraphFormatting(format_maps, shape.shape_id,
                                          shape.paragraphs, shape.props)
           marked_text == InsertFormatMarkers(content).marked_text
           translated_text == MarkCallback(shCb, marked_text)
           clean_text == RemoveFormatMarkers(translated_text, None).text
           rebuilt == UpdateTextFrame(shape.paragraphs, clean_text,
                                      StoredFormats(fm, shape.shape_id))
       IN /\ Truthy(Strip(content))
          /\ format_maps' = fm
          /\ prs' = [prs EXCEPT ![slide_idx][shape_idx].paragraphs = rebuilt,
                                 ![slide_idx][shape_idx].props =
                                     UpdateTextFrameProps(shape.props, clean_text,
                                                          StoredFormats(fm, shape.shape_id))]
          /\ processed' = [done |-> TRUE, slide |-> slide_idx, shape |-> shape_idx,
                           shape_id |-> shape.shape_id,
                           run_count |-> RunCount(shape.paragraphs),
                           new_text |-> clean_text,
                           content |-> content,
                           original |-> shape]
    /\ shape_idx' = shape_idx + 1
    /\ UNCHANGED <<shCb, slide_idx>>
    /\ UNCHANGED <<predVars, engVars, valVars, fmtVars, markVars, orderVars, smVars, idVars, svcVars>>

\* the shapes of the slide are done: on to the next slide
NextSlide ==
    /\ slide_idx <= Len(prs)
    /\ shape_idx > Len(prs[slide_idx])
    /\ slide_idx' = slide_idx + 1
    /\ shape_idx' = 1
    /\ UNCHANGED <<prs, format_maps, shCb, processed>>
    /\ UNCHANGED <<predVars, engVars, valVars, fmtVars, markVars, orderVars, smVars, idVars, svcVars>>

-----------------------------------------------------------------------------
(* The document passes: which runs translate is called for, and when *)

RECURSIVE Concat(_)
\* the concatenation of a sequence of sequences
Concat(ss) == IF ss = <<>> THEN <<>> ELSE Head(ss) \o Concat(Tail(ss))

\* _translate_paragraph_runs on paragraph p of the container at; the place
\* of a run is <<part or slide, table/section/shape, row, cell, paragraph, run>>
VisitRuns(k, at, p, para) ==
    Concat([r \in 1..Len(para) |->
               IF RunEligible(k, para[r].text) THEN <<at \o <<p, r>>>> ELSE <<>>])

\* `if para.text.strip(): process_paragraph(para, translate)` over paragraphs
VisitParagraphsDocx(at, paras) ==
    Concat([p \in 1..Len(paras) |->
               IF Truthy(Strip(ParagraphText(paras[p])))
               THEN VisitRuns("docx", at, p, paras[p]) ELSE <<>>])

\* for table / for row / for cell / for para of translate_document
VisitTablesDocx(tables) ==
    Concat([t \in 1..Len(tables) |->
       Concat([r \in 1..Len(tables[t]) |->
          Concat([c \in 1..Len(tables[t][r]) |->
             VisitParagraphsDocx(<<2, t, r, c>>, tables[t][r][c])])])])

\* for section in document.sections: section.header.paragraphs
VisitHeadersDocx(sections) ==
    Concat([n \in 1..Len(sections) |->
               VisitParagraphsDocx(<<3, n, 0, 0>>, sections[n].header)])

\* for section in document.sections: section.footer.paragraphs
VisitFootersDocx(sections) ==
    Concat([n \in 1..Len(sections) |->
               VisitParagraphsDocx(<<4, n, 0, 0>>, sections[n].footer)])

\* a translate_document that goes through the headers before the tables
VisitOrderDocx_HeadersFirst(d) ==
    VisitParagraphsDocx(<<1, 0, 0, 0>>, d.paragraphs)
    \o (IF d.translate_headers THEN VisitHeadersDocx(d.sections) ELSE <<>>)
    \o VisitTablesDocx(d.tables)
    \o (IF d.translate_footers THEN VisitFootersDocx(d.sections) ELSE <<>>)

\* translate_document: the runs translate is called for, in the order of the loops
VisitOrderDocx(d) ==
    VisitParagraphsDocx(<<1, 0, 0, 0>>, d.paragraphs)
    \o VisitTablesDocx(d.tables)
    \o (IF d.translate_headers THEN VisitHeadersDocx(d.sections) ELSE <<>>)
    \o (IF d.translate_footers THEN VisitFootersDocx(d.sections) ELSE <<>>)

\* _translate_text_frame_runs(text_frame)
VisitTextFramePptx(at, paras) ==
    Concat([p \in 1..Len(paras) |-> VisitRuns("pptx", at, p, paras[p])])

\* EnhancedShapeProcessor.process_shape on shape h of slide n
VisitShapePptx(n, h, shape) ==
    IF shape.has_table
    THEN Concat([r \in 1..Len(shape.rows) |->
            Concat([c \in 1..Len(shape.rows[r]) |->
               VisitTextFramePptx(<<n, h, r, c>>, shape.rows[r][c])])])
    ELSE IF Truthy(Strip(GetTextFrameContent(shape.paragraphs)))
    THEN VisitTextFramePptx(<<n, h, 0, 0>>, shape.paragraphs)
    ELSE <<>>

\* a pass that goes through the notes whatever translate_notes says
VisitSlidePptx_AlwaysNotes(d, n) ==
    LET slide == d.slides[n]
    IN Concat([h \in 1..Len(slide.shapes) |-> VisitShapePptx(n, h, slide.shapes[h])])
       \o (IF Truthy(Strip(slide.notes))
           THEN <<<<n, Len(slide.shapes) + 1, 0, 0, 0, 0>>>> ELSE <<>>)

\* the shapes of slide n, then its notes
VisitSlidePptx(d, n) ==
    LET slide == d.slides[n]
    IN Concat([h \in 1..Len(slide.shapes) |-> VisitShapePptx(n, h, slide.shapes[h])])
       \o (IF d.translate_notes /\ Truthy(Strip(slide.notes))
           THEN <<<<n, Len(slide.shapes) + 1, 0, 0, 0, 0>>>> ELSE <<>>)

\* translate_presentation: the calls of translate, in the order of the loops
VisitOrderPptx(d) == Concat([n \in 1..Len(d.slides) |-> VisitSlidePptx(d, n)])

VisitOrder(k, d) == IF k = "docx" THEN VisitOrderDocx(d) ELSE VisitOrderPptx(d)

\* a Word table of two rows of two cells
OrderTable == <<<<<<P_ciao>>, <<P_hello2>>>>, <<<<P_blank>>, <<P_ciao, P_hello3>>>>>>

\* Word sections with their header and footer paragraphs
Section1 == [header |-> <<P_hello2>>, footer |-> <<P_ciao>>]
Section2 == [header |-> <<P_blank, P_ciao>>, footer |-> <<>>]

\* Word documents and the translator's two switches
OrderDocx ==
    [paragraphs : {<<>>, <<P_ciao>>, <<P_blank, P_hello3>>, <<P_hello2, P_ciao>>},
     tables : {<<>>, <<OrderTable>>},
     sections : {<<Section1>>, <<Section1, Section2>>},
     translate_headers : BOOLEAN,
     translate_footers : BOOLEAN]

\* PowerPoint shapes: text boxes and a table of two rows of two cells
TextBox(paras) == [has_table |-> FALSE, paragraphs |-> paras, rows |-> <<>>]
TableFrame(rows) == [has_table |-> TRUE, paragraphs |-> <<>>, rows |-> rows]

OrderSlides ==
    {[shapes |-> <<TextBox(TF_body), TableFrame(OrderTable)>>, notes |-> T_hello],
     [shapes |-> <<TextBox(TF_blank), TextBox(TF_title)>>, notes |-> <<>>]}

\* presentations of one or two slides and the translate_notes switch
OrderPptx ==
    [slides : {<<a>> : a \in OrderSlides} \cup {<<a, b>> : a \in OrderSlides, b \in OrderSlides},
     translate_notes : BOOLEAN]

OrderIdle ==
    /\ docKind = "docx"
    /\ document = <<>>
    /\ callLog = <<>>
    /\ inFlight = {}
    /\ returned = {}
    /\ passPc = "idle"
    /\ saves = 0
    /\ failedIn = "none"

\* translate_document / translate_presentation was called on the file
\* holding document; nothing was loaded yet
OrderInit ==
    /\ docKind \in {"docx", "pptx"}
    /\ document \in (IF docKind = "docx" THEN OrderDocx ELSE OrderPptx)
    /\ callLog = <<>>
    /\ inFlight = {}
    /\ returned = {}
    /\ passPc = "loading"
    /\ saves = 0
    /\ failedIn = "none"

\* a pass whose save is not held back by the loops
LoopsThrough_Always(k, d, log) == TRUE

\* the statement after the loops is reached: every container was gone
\* through, so every call of translate was made
LoopsThrough(k, d, log) == Len(log) = Len(VisitOrder(k, d))

\* document = Document(input_path) / Presentation(input_path) returns
LoadPass ==
    /\ passPc = "loading"
    /\ passPc' = "running"
    /\ UNCHANGED <<docKind, document, callLog, inFlight, returned, saves, failedIn>>
    /\ UNCHANGED <<predVars, engVars, valVars, fmtVars, markVars, shapeVars, smVars, idVars, svcVars>>

\* the load raises: `except Exception as e: ... raise`
LoadFails ==
    /\ passPc = "loading"
    /\ passPc' = "failed"
    /\ failedIn' = "load"
    /\ UNCHANGED <<docKind, document, callLog, inFlight, returned, saves>>
    /\ UNCHANGED <<predVars, engVars, valVars, fmtVars, markVars, shapeVars, smVars, idVars, svcVars>>

\* translated_core = translate_func(core_text): the loops reached the next
\* run to translate and the call starts; the frame of the pass waits in it
CallTranslate ==
    /\ passPc = "running"
    /\ inFlight = {}
    /\ Len(callLog) < Len(VisitOrder(docKind, document))
    /\ LET at == VisitOrder(docKind, document)[Len(callLog) + 1]
       IN /\ callLog' = Append(callLog, at)
          /\ inFlight' = {at}
    /\ UNCHANGED <<docKind, document, returned, passPc, saves, failedIn>>
    /\ UNCHANGED <<predVars, engVars, valVars, fmtVars, markVars, shapeVars, smVars, idVars, svcVars>>

\* the call returns and run.text is rewritten
ReturnTranslate ==
    /\ passPc = "running"
    /\ inFlight # {}
    /\ returned' = returned \cup inFlight
    /\ inFlight' = {}
    /\ UNCHANGED <<docKind, document, callLog, passPc, saves, failedIn>>
    /\ UNCHANGED <<predVars, engVars, valVars, fmtVars, markVars, shapeVars, smVars, idVars, svcVars>>

\* the call raises: logged and raised again up to the caller of the pass
TranslateRaises ==
    /\ passPc = "running"
    /\ inFlight # {}
    /\ inFlight' = {}
    /\ passPc' = "failed"
    /\ failedIn' = "translate"
    /\ UNCHANGED <<docKind, document, callLog, returned, saves>>
    /\ UNCHANGED <<predVars, engVars, valVars, fmtVars, markVars, shapeVars, smVars, idVars, svcVars>>

\* the loops are through: document.save(output_path) / prs.save(output_path)
SavePass ==
    /\ passPc = "running"
    /\ inFlight = {}
    /\ LoopsThrough(docKind, document, callLog)
    /\ passPc' = "saved"
    /\ saves' = saves + 1
    /\ UNCHANGED <<docKind, document, callLog, inFlight, returned, failedIn>>
    /\ UNCHANGED <<predVars, engVars, valVars, fmtVars, markVars, shapeVars, smVars, idVars, svcVars>>

\* save(output_path) raises: `except Exception as e: ... raise`
SaveFails ==
    /\ passPc = "running"
    /\ inFlight = {}
    /\ LoopsThrough(docKind, document, callLog)
    /\ passPc' = "failed"
    /\ saves' = saves + 1
    /\ failedIn' = "save"
    /\ UNCHANGED <<docKind, document, callLog, inFlight, returned>>
    /\ UNCHANGED <<predVars, engVars, valVars, fmtVars, markVars, shapeVars, smVars, idVars, svcVars>>

-----------------------------------------------------------------------------
(* EnhancedShapeProcessor: the text nodes of a SmartArt graphic *)

\* what an a:t element of a SmartArt may hold
NodeTexts == {T_ciao, T_sono, T_io, <<" ">>, T_NASA, T_empty}

\* SmartArt graphics of one to three text nodes
SmartArts == UNION {[1..n -> NodeTexts] : n \in 1..3}

\* the callbacks a SmartArt is processed with
SmartCallbacks == {"identity", "dict", "blank", "raising"}

\* `if t_elem.text and t_elem.text.strip()`
NodeHasText(e) == Truthy(e.text) /\ Truthy(Strip(e.text))

\* extract_shape_content on a SmartArt: (text, idx) of every a:t with text
ExtractSmartArt(nodes) ==
    SelectSeq([i \in 1..Len(nodes) |-> [text |-> nodes[i], idx |-> i - 1]], NodeHasText)

\* an update that writes the first a:t and leaves the others as they are
UpdateSmartArtTextEnhanced_KeepRest(nodes, new_text) ==
    IF nodes = <<>> THEN nodes ELSE [nodes EXCEPT ![1] = new_text]

\* _update_smartart_text_enhanced: text_elements[0].text = new_text, and
\* elem.text = "" for every elem of text_elements[1:]
UpdateSmartArtTextEnhanced(nodes, new_text) ==
    IF nodes = <<>> THEN nodes
    ELSE [i \in 1..Len(nodes) |-> IF i = 1 THEN new_text ELSE <<>>]

\* `if text.strip()` and `_should_translate_text(text)` of the loop
SmartArtEntryEligible(t) == Truthy(Strip(t)) /\ ShouldTranslatePptx(t)

SmartIdle ==
    /\ smNodes = <<>>
    /\ smOrig = <<>>
    /\ smCb = "identity"
    /\ smContent = <<>>
    /\ smIdx = 0
    /\ smCalls = <<>>
    /\ smPc = "idle"

\* process_shape was called on a SmartArt and nothing was extracted yet
SmartInit ==
    /\ smNodes \in SmartArts
    /\ smOrig = smNodes
    /\ smCb \in SmartCallbacks
    /\ smContent = <<>>
    /\ smIdx = 0
    /\ smCalls = <<>>
    /\ smPc = "start"

\* content_list = self.text_processor.extract_shape_content(smartart)
ExtractContent ==
    /\ smPc = "start"
    /\ smContent' = ExtractSmartArt(smNodes)
    /\ smPc' = "loop"
    /\ UNCHANGED <<smNodes, smOrig, smCb, smIdx, smCalls>>
    /\ UNCHANGED <<predVars, engVars, valVars, fmtVars, markVars, shapeVars, orderVars, idVars, svcVars>>

\* one entry of content_list that the loop passes over (`continue`)
SkipNode ==
    /\ smPc = "loop"
    /\ smIdx < Len(smContent)
    /\ ~SmartArtEntryEligible(smContent[smIdx + 1].text)
    /\ smIdx' = smIdx + 1
    /\ smCalls' = Append(smCalls, None)
    /\ UNCHANGED <<smNodes, smOrig, smCb, smContent, smPc>>
    /\ UNCHANGED <<predVars, engVars, valVars, fmtVars, markVars, shapeVars, orderVars, idVars, svcVars>>

\* one entry translated and written: translate_func(text), then
\* _update_smartart_text_enhanced(smartart, translated_text, context_id)
TranslateNode ==
    /\ smPc = "loop"
    /\ smIdx < Len(smContent)
    /\ SmartArtEntryEligible(smContent[smIdx + 1].text)
    /\ TranslateFunc(smCb, smContent[smIdx + 1].text).ok
    /\ LET translated_text == TranslateFunc(smCb, smContent[smIdx + 1].text).val
       IN /\ smNodes' = UpdateSmartArtTextEnhanced(smNodes, translated_text)
          /\ smCalls' = Append(smCalls, Some(translated_text))
    /\ smIdx' = smIdx + 1
    /\ UNCHANGED <<smOrig, smCb, smContent, smPc>>
    /\ UNCHANGED <<predVars, engVars, valVars, fmtVars, markVars, shapeVars, orderVars, idVars, svcVars>>

\* translate_func raises: process_shape logs the error and raises it again
TranslateNodeRaises ==
    /\ smPc = "loop"
    /\ smIdx < Len(smContent)
    /\ SmartArtEntryEligible(smContent[smIdx + 1].text)
    /\ ~TranslateFunc(smCb, smContent[smIdx + 1].text).ok
    /\ smPc' = "failed"
    /\ UNCHANGED <<smNodes, smOrig, smCb, smContent, smIdx, smCalls>>
    /\ UNCHANGED <<predVars, engVars, valVars, fmtVars, markVars, shapeVars, orderVars, idVars, svcVars>>

\* the loop is through content_list
SmartArtDone ==
    /\ smPc = "loop"
    /\ smIdx = Len(smContent)
    /\ smPc' = "done"
    /\ UNCHANGED <<smNodes, smOrig, smCb, smContent, smIdx, smCalls>>
    /\ UNCHANGED <<predVars, engVars, valVars, fmtVars, markVars, shapeVars, orderVars, idVars, svcVars>>

-----------------------------------------------------------------------------
(* TextProcessor / FormatValidator: the context identifiers of a traversal *)

\* str(n) of a shape id or an index below ten
Str(n) == <<<<"0", "1", "2", "3", "4", "5", "6", "7", "8", "9">>[n + 1]>>

\* shapes as extract_shape_content tells them apart
IdTextBox(id, paras) ==
    [shape_id |-> id, shape_type |-> "text", paragraphs |-> paras, rows |-> <<>>, nodes |-> <<>>]
IdTable(id, rows) ==
    [shape_id |-> id, shape_type |-> "table", paragraphs |-> <<>>, rows |-> rows, nodes |-> <<>>]
IdSmartArt(id, nodes) ==
    [shape_id |-> id, shape_type |-> "smartart", paragraphs |-> <<>>, rows |-> <<>>, nodes |-> nodes]

\* slides: shape ids are distinct within a slide; notes are the text of the
\* notes text frame, <<>> when the slide has no notes slide
IdSlides ==
    {[shapes |-> <<IdTextBox(2, TF_title), IdTable(3, OrderTable)>>, notes |-> TF_body],
     [shapes |-> <<IdSmartArt(2, <<T_ciao, <<" ">>, T_sono>>), IdTextBox(4, TF_blank)>>,
      notes |-> TF_title],
     [shapes |-> <<IdTextBox(5, TF_body)>>, notes |-> <<>>],
     [shapes |-> <<IdTable(6, OrderTable), IdSmartArt(7, <<T_io>>)>>, notes |-> TF_blank]}

\* presentations of one or two slides
IdDecks == {<<a>> : a \in IdSlides} \cup {<<a, b>> : a \in IdSlides, b \in IdSlides}

\* f"{shape.shape_id}_smartart_{idx}" for every a:t element with text
SmartArtIds(n, h, shape) ==
    Concat([i \in 1..Len(shape.nodes) |->
       IF NodeHasText([text |-> shape.nodes[i]])
       THEN <<[container |-> <<n, h, i, 0>>,
               id |-> Str(shape.shape_id) \o <<"_smartart_">> \o Str(i - 1)]>>
       ELSE <<>>])

\* f"{shape.shape_id}_table_{row_idx}_{col_idx}" for every cell with text
TableIds(n, h, shape) ==
    Concat([r \in 1..Len(shape.rows) |->
       Concat([c \in 1..Len(shape.rows[r]) |->
          IF Truthy(Strip(GetTextFrameContent(shape.rows[r][c])))
          THEN <<[container |-> <<n, h, r, c>>,
                  id |-> Str(shape.shape_id) \o <<"_table_">> \o Str(r - 1)
                         \o <<"_">> \o Str(c - 1)]>>
          ELSE <<>>])])

\* str(shape.shape_id) for a text frame with text
TextFrameIds(n, h, shape) ==
    IF Truthy(Strip(GetTextFrameContent(shape.paragraphs)))
    THEN <<[container |-> <<n, h, 0, 0>>, id |-> Str(shape.shape_id)]>>
    ELSE <<>>

\* extract_shape_content(shape): the identifiers of shape h of slide n
ExtractShapeContent(n, h, shape) ==
    CASE shape.shape_type = "smartart" -> SmartArtIds(n, h, shape)
      [] shape.shape_type = "table"    -> TableIds(n, h, shape)
      [] OTHER                         -> TextFrameIds(n, h, shape)

\* extract_notes_content(notes_slide): (notes_text, "notes") or None
ExtractNotesContent(n, slide) ==
    IF slide.notes # <<>> /\ Truthy(Strip(GetTextFrameContent(slide.notes)))
    THEN <<[container |-> <<n, Len(slide.shapes) + 1, 0, 0>>, id |-> <<"notes">>]>>
    ELSE <<>>

IdIdle ==
    /\ idPrs = <<>>
    /\ idSlide = 0
    /\ idShape = 0
    /\ idSeen = <<>>

\* validate_presentation was called; the traversal is at the first shape
IdInit ==
    /\ idPrs \in IdDecks
    /\ idSlide = 1
    /\ idShape = 1
    /\ idSeen = <<>>

\* _validate_shape on the next shape of the slide
ValidateShape ==
    /\ idSlide \in 1..Len(idPrs)
    /\ idShape \in 1..Len(idPrs[idSlide].shapes)
    /\ idSeen' = idSeen \o ExtractShapeContent(idSlide, idShape, idPrs[idSlide].shapes[idShape])
    /\ idShape' = idShape + 1
    /\ UNCHANGED <<idPrs, idSlide>>
    /\ UNCHANGED <<predVars, engVars, valVars, fmtVars, markVars, shapeVars, orderVars, smVars, svcVars>>

\* the shapes of the slide are through: _validate_notes when the slide has
\* notes, then the next slide
ValidateNotes ==
    /\ idSlide \in 1..Len(idPrs)
    /\ idShape = Len(idPrs[idSlide].shapes) + 1
    /\ idSeen' = idSeen \o ExtractNotesContent(idSlide, idPrs[idSlide])
    /\ idSlide' = idSlide + 1
    /\ idShape' = 1
    /\ UNCHANGED idPrs
    /\ UNCHANGED <<predVars, engVars, valVars, fmtVars, markVars, shapeVars, orderVars, smVars, svcVars>>

-----------------------------------------------------------------------------
(* The built-in translate_text of both translators *)

\* texts handed to translate_text
ServiceTexts == {T_empty, <<" ">>, <<"nl", " ">>, T_ciao, <<" ">> \o T_sono, T_NASA,
                 T_hello, T_io \o <<"nl">> \o T_me}

\* what client.chat.completions.create does: it raises, it answers with no
\* choice, with a choice without content, or with a content
ServiceOutcomes == {"raises", "no_choice", "no_content", "same", "translated", "blank"}

\* how a call of translate_text ends: it returns val, or it raises
Returns(v) == [raised |-> FALSE, val |-> v]
Raises == [raised |-> TRUE, val |-> <<>>]

\* `if not text or not text.strip(): return text`
ReturnsEarly(t) == ~Truthy(t) \/ ~Truthy(Strip(t))

\* an except clause that logs the error and raises it again
TranslateTextResult_Reraise(t, outcome) ==
    CASE outcome \in {"raises", "no_choice", "no_content"} -> Raises
      [] outcome = "same"       -> Returns(t)
      [] outcome = "translated" -> Returns(DictLookup(Strip(t)))
      [] outcome = "blank"      -> Returns(<<>>)

\* the try block of translate_text: response.choices[0].message.content is
\* returned; an exception of the call, of choices[0] or of translated.strip()
\* is caught by `except Exception` and text is returned
TranslateTextResult(t, outcome) ==
    CASE outcome \in {"raises", "no_choice", "no_content"} -> Returns(t)
      [] outcome = "same"       -> Returns(t)
      [] outcome = "translated" -> Returns(DictLookup(Strip(t)))
      [] outcome = "blank"      -> Returns(<<>>)

SvcIdle ==
    /\ svText = <<>>
    /\ svService = "same"
    /\ svCalls = 0
    /\ svResult = Returns(<<>>)
    /\ svPc = "idle"

\* translate_text(text) was called
SvcInit ==
    /\ svText \in ServiceTexts
    /\ svService \in ServiceOutcomes
    /\ svCalls = 0
    /\ svResult = Returns(<<>>)
    /\ svPc = "start"

\* the guard returns text without entering the try block
ReturnEarly ==
    /\ svPc = "start"
    /\ ReturnsEarly(svText)
    /\ svResult' = Returns(svText)
    /\ svPc' = "returned"
    /\ UNCHANGED <<svText, svService, svCalls>>
    /\ UNCHANGED <<predVars, engVars, valVars, fmtVars, markVars, shapeVars, orderVars, smVars, idVars>>

\* self.client.chat.completions.create(...) is called
CallService ==
    /\ svPc = "start"
    /\ ~ReturnsEarly(svText)
    /\ svCalls' = svCalls + 1
    /\ svPc' = "calling"
    /\ UNCHANGED <<svText, svService, svResult>>
    /\ UNCHANGED <<predVars, engVars, valVars, fmtVars, markVars, shapeVars, orderVars, smVars, idVars>>

\* the call is over: `return translated`, or the except clause's `return text`
ServiceAnswers ==
    /\ svPc = "calling"
    /\ svResult' = TranslateTextResult(svText, svService)
    /\ svPc' = "returned"
    /\ UNCHANGED <<svText, svService, svCalls>>
    /\ UNCHANGED <<predVars, engVars, valVars, fmtVars, markVars, shapeVars, orderVars, smVars, idVars>>

-----------------------------------------------------------------------------
(* Specifications *)

\* the should-translate predicates on one text
InitPred == PredInit /\ EngIdle /\ ValIdle /\ FmtIdle /\ MarkIdle /\ ShapeIdle /\ OrderIdle
    /\ SmartIdle /\ IdIdle /\ SvcIdle
NextPred == EvalShouldTranslate
SpecPred == InitPred /\ [][NextPred]_vars

\* one document pass of the run-preserving engine
Init == PredIdle /\ EngInit /\ ValIdle /\ FmtIdle /\ MarkIdle /\ ShapeIdle /\ OrderIdle
    /\ SmartIdle /\ IdIdle /\ SvcIdle
Next ==
    \/ SkipEmptyParagraph
    \/ SkipRun
    \/ TranslateRun
    \/ TranslateRunRaises
    \/ NextParagraph
    \/ SaveDocument
Spec == Init /\ [][Next]_vars

\* the Word validator on two documents
InitVal == PredIdle /\ EngIdle /\ ValInit /\ FmtIdle /\ MarkIdle /\ ShapeIdle /\ OrderIdle
    /\ SmartIdle /\ IdIdle /\ SvcIdle
NextVal == ValidateStructure \/ ValidateQuality \/ CompareDocs
SpecVal == InitVal /\ [][NextVal]_vars

\* capture a run's formatting and apply it back
InitFmt == PredIdle /\ EngIdle /\ ValIdle /\ FmtInit /\ MarkIdle /\ ShapeIdle /\ OrderIdle
    /\ SmartIdle /\ IdIdle /\ SvcIdle
NextFmt == Capture \/ Apply \/ ApplyRecord \/ ApplyColor
SpecFmt == InitFmt /\ [][NextFmt]_vars

\* the marker round trip of one container text
InitMark == PredIdle /\ EngIdle /\ ValIdle /\ FmtIdle /\ MarkInit /\ ShapeIdle /\ OrderIdle
    /\ SmartIdle /\ IdIdle /\ SvcIdle
NextMark == InsertMarkers \/ CallbackOnMarked \/ RemoveMarkers
SpecMark == InitMark /\ [][NextMark]_vars

\* one pass of the container-level reconstruction over a presentation
InitShape == PredIdle /\ EngIdle /\ ValIdle /\ FmtIdle /\ MarkIdle /\ ShapeInit /\ OrderIdle
    /\ SmartIdle /\ IdIdle /\ SvcIdle
NextShape == SkipTextFrame \/ ProcessTextFrame \/ NextSlide
SpecShape == InitShape /\ [][NextShape]_vars

\* the calls of the callback during one document pass
InitOrder == PredIdle /\ EngIdle /\ ValIdle /\ FmtIdle /\ MarkIdle /\ ShapeIdle /\ OrderInit
    /\ SmartIdle /\ IdIdle /\ SvcIdle
NextOrder ==
    \/ LoadPass \/ LoadFails
    \/ CallTranslate \/ ReturnTranslate \/ TranslateRaises
    \/ SavePass \/ SaveFails
SpecOrder == InitOrder /\ [][NextOrder]_vars

\* one SmartArt graphic processed by the enhanced shape processor
InitSmart == PredIdle /\ EngIdle /\ ValIdle /\ FmtIdle /\ MarkIdle /\ ShapeIdle /\ OrderIdle
    /\ SmartInit /\ IdIdle /\ SvcIdle
NextSmart == ExtractContent \/ SkipNode \/ TranslateNode \/ TranslateNodeRaises \/ SmartArtDone
SpecSmart == InitSmart /\ [][NextSmart]_vars

\* the context identifiers produced while a presentation is validated
InitIds == PredIdle /\ EngIdle /\ ValIdle /\ FmtIdle /\ MarkIdle /\ ShapeIdle /\ OrderIdle
    /\ SmartIdle /\ IdInit /\ SvcIdle
NextIds == ValidateShape \/ ValidateNotes
SpecIds == InitIds /\ [][NextIds]_vars

\* one call of the built-in translate_text
InitSvc == PredIdle /\ EngIdle /\ ValIdle /\ FmtIdle /\ MarkIdle /\ ShapeIdle /\ OrderIdle
    /\ SmartIdle /\ IdIdle /\ SvcInit
NextSvc == ReturnEarly \/ CallService \/ ServiceAnswers
SpecSvc == InitSvc /\ [][NextSvc]_vars

-----------------------------------------------------------------------------
(* Properties of the run-preserving engine (Spec) *)

\* the longest prefix of t made of whitespace only
MaxWsPrefix(t) ==
    LET k == CHOOSE j \in 0..Len(t) :
                /\ \A m \in 1..j : IsSpaceCh(t[m])
                /\ j < Len(t) => ~IsSpaceCh(t[j + 1])
    IN SubSeq(t, 1, k)

\* the longest suffix of t made of whitespace only
MaxWsSuffix(t) ==
    LET k == CHOOSE j \in 0..Len(t) :
                /\ \A m \in (Len(t) - j + 1)..Len(t) : IsSpaceCh(t[m])
                /\ j < Len(t) => ~IsSpaceCh(t[Len(t) - j])
    IN SubSeq(t, Len(t) - k + 1, Len(t))

\* t without its whitespace prefix and suffix
Stripped(t) ==
    SubSeq(t, Len(MaxWsPrefix(t)) + 1, Len(t) - Len(MaxWsSuffix(t)))

\* the runs the pass has in hand, by position
BothRuns == DOMAIN runs \cap DOMAIN orig

\* C1: a paragraph processed by the run-preserving strategy has the same
\* number of runs, in the same order, after processing as before, whatever
\* the callback.
C1_RunCountAndOrderPreserved ==
    pass # "idle" =>
        /\ Len(runs) = Len(orig)
        /\ \A i \in BothRuns : runs[i].id = orig[i].id

\* C1 witness: a three-run paragraph completely processed, one run rewritten
C1_Witness ==
    /\ pass = "saved"
    /\ Len(orig) = 3
    /\ \E i \in BothRuns : rets[i].st = "ok" /\ runs[i].text # orig[i].text

\* every translated run is L + translate_func(C) + T of its original text
RunRebuiltFromParts ==
    \A i \in BothRuns :
        rets[i].st = "ok" =>
            /\ calls[i].called /\ calls[i].arg = Stripped(orig[i].text)
            /\ rets[i].val = TranslateFunc(cb, Stripped(orig[i].text)).val
            /\ runs[i].text = MaxWsPrefix(orig[i].text) \o rets[i].val
                              \o MaxWsSuffix(orig[i].text)

\* C2 as stated: every translated run is L + translate_func(C) + T, and its
\* leading and trailing whitespace are the original's whenever the callback
\* result has no surrounding whitespace.
C2_SpacingPreserved_AsStated ==
    pass # "idle" =>
        /\ RunRebuiltFromParts
        /\ \A i \in BothRuns :
              (rets[i].st = "ok" /\ Stripped(rets[i].val) = rets[i].val) =>
                  /\ MaxWsPrefix(runs[i].text) = MaxWsPrefix(orig[i].text)
                  /\ MaxWsSuffix(runs[i].text) = MaxWsSuffix(orig[i].text)

\* C2 amended: every translated run is L + translate_func(C) + T, and its
\* leading and trailing whitespace are the original's whenever the callback
\* result is non-empty and has no surrounding whitespace.
C2_SpacingPreserved ==
    pass # "idle" =>
        /\ RunRebuiltFromParts
        /\ \A i \in BothRuns :
              (/\ rets[i].st = "ok"
               /\ rets[i].val # <<>>
               /\ Stripped(rets[i].val) = rets[i].val) =>
                  /\ MaxWsPrefix(runs[i].text) = MaxWsPrefix(orig[i].text)
                  /\ MaxWsSuffix(runs[i].text) = MaxWsSuffix(orig[i].text)

\* C2 witness: "  hello  " with hello -> world has become "  world  "
C2_Witness ==
    \E i \in BothRuns :
        /\ orig[i].text = <<" ", " ">> \o T_hello \o <<" ", " ">>
        /\ rets[i].st = "ok"
        /\ runs[i].text = <<" ", " ">> \o T_world \o <<" ", " ">>

\* C3: when the callback raises on a run, that run keeps its text and the
\* failure goes no further: the pass is not aborted.
C3_CallbackFailureContained ==
    \A i \in BothRuns :
        rets[i].st = "raised" => (runs[i].text = orig[i].text /\ pass # "failed")

\* a run the strategy must not touch
NotTranslatable(k, t) == t = <<>> \/ IsSpace(t) \/ ~ShouldTranslate(k, t)

\* C6: a run whose text is empty, whitespace-only or rejected by the engine's
\* should-translate predicate is never passed to translate_func and keeps
\* its text.
C6_SkippedRunsUntouched ==
    pass # "idle" =>
        \A i \in BothRuns :
            NotTranslatable(kind, orig[i].text) =>
                (~calls[i].called /\ runs[i].text = orig[i].text)

\* C6 witness: a finished paragraph where a number run was skipped next to a
\* run that was translated
C6_Witness ==
    /\ pass = "saved"
    /\ \E i, j \in BothRuns :
          /\ orig[i].text = T_42 /\ ~calls[i].called /\ runs[i].text = T_42
          /\ rets[j].st = "ok" /\ runs[j].text # orig[j].text

\* C7: the strategy changes nothing but run texts: every run keeps every
\* formatting attribute; and "ciao " / "sono" (bold) / " io" with
\* ciao -> hello, sono -> this is, io -> me ends as "hello " / "this is"
\* (bold) / " me", i.e. "hello this is me".
C7_OnlyTextChanges ==
    pass # "idle" =>
        /\ \A i \in BothRuns : runs[i].fmt = orig[i].fmt
        /\ (orig = CiaoSonoIo /\ cb = "dict" /\ ri = Len(orig)) =>
              /\ runs = HelloThisIsMe
              /\ ParagraphText(runs) = T_hello \o <<" ">> \o T_thisis \o <<" ">> \o T_me

\* C7 witness: the example paragraph translated and saved
C7_Witness ==
    /\ pass = "saved"
    /\ orig = CiaoSonoIo
    /\ cb = "dict"
    /\ runs = HelloThisIsMe
    /\ runs[2].fmt.bold = Some(TRUE)

-----------------------------------------------------------------------------
(* Properties of the should-translate predicates (SpecPred) *)

\* C4: both predicates reject "NASA", "NASA 2024", "42", "a" and "" and
\* accept "Hello World".
C4_SkipPredicateExamples ==
    predDone =>
        /\ text \in {T_NASA, T_NASA24, T_42, T_a, T_empty} => (~resPptx /\ ~resDocx)
        /\ text = T_Hello => (resPptx /\ resDocx)

\* C4 witness: "NASA 2024" was evaluated and rejected by both
C4_Witness == predDone /\ text = T_NASA24 /\ ~resPptx /\ ~resDocx

\* C5: the PowerPoint and the Word predicate give the same result on every
\* text, and both reject the bullet/arrow glyphs.
C5_PredicatesAgree ==
    predDone =>
        /\ resPptx = resDocx
        /\ text \in WordGlyphs => (~resPptx /\ ~resDocx)

-----------------------------------------------------------------------------
(* Properties of the Word validator (SpecVal) *)

\* the two documents differ only in that paragraph k has another run count
DiffersOnlyInRunCountAt(od, td, k) ==
    /\ od.tables = td.tables
    /\ Len(od.paragraphs) = Len(td.paragraphs)
    /\ \A i \in DOMAIN od.paragraphs : i # k => od.paragraphs[i] = td.paragraphs[i]
    /\ ParagraphText(od.paragraphs[k]) = ParagraphText(td.paragraphs[k])
    /\ Stripped(ParagraphText(od.paragraphs[k])) # <<>>
    /\ Len(od.paragraphs[k]) # Len(td.paragraphs[k])

\* the messages of a list
Range(q) == {q[i] : i \in DOMAIN q}

\* C8: when the two documents differ only in the run count of one non-empty
\* paragraph, the report lists a run-count mismatch among its errors and
\* structure_match is false.
C8_RunCountMismatchIsError ==
    (report.done /\ loadOk /\ badNode = 0) =>
        \A k \in DOMAIN origDoc.paragraphs :
            DiffersOnlyInRunCountAt(origDoc, transDoc, k) =>
                /\ report.r.structure_match = FALSE
                /\ \E e \in Range(report.r.errors) :
                      e.msg = "Run count mismatch in paragraph"

\* paragraphs compared by the quality check: both exist, the original is not blank
Comparable == {i \in DOMAIN origDoc.paragraphs \cap DOMAIN transDoc.paragraphs :
                  Stripped(ParagraphText(origDoc.paragraphs[i])) # <<>>}
UnchangedParas == {i \in Comparable :
                     Stripped(ParagraphText(transDoc.paragraphs[i]))
                       = Stripped(ParagraphText(origDoc.paragraphs[i]))}
EmptiedParas == {i \in Comparable : Stripped(ParagraphText(transDoc.paragraphs[i])) = <<>>}

-----------------------------------------------------------------------------
(* Properties of the formatting managers (SpecFmt) *)

C11_NoneLeavesTriStateUntouched ==
    fmtPc = "applied_record" =>
        /\ rec.bold = None => run1.bold = run0.bold
        /\ rec.italic = None => run1.italic = run0.italic
        /\ rec.underline = None => run1.underline = run0.underline

\* the attributes of the record that do not depend on a readable size or color
ReadableRecorded ==
    /\ rec.font_name = run0.font_name
    /\ rec.bold = run0.bold
    /\ rec.italic = run0.italic
    /\ rec.underline = run0.underline

\* C12: collect_run_formatting never raises; when one attribute of the run
\* cannot be read that attribute is recorded as absent and every attribute
\* that can be read is recorded.
C12_CaptureNeverRaises ==
    /\ fmtPc # "capture_raised"
    /\ (fmtPc = "captured" /\ fault # "none") =>
          /\ ReadableRecorded
          /\ fault = "font_size" => rec.font_size = None
          /\ fault = "color" => (IF fmtKind = "pptx" THEN rec.color_format = None
                                 ELSE rec.color = None)

-----------------------------------------------------------------------------
(* Properties of the format markers (SpecMark) *)

\* C13: insert_format_markers, an identity callback and remove_format_markers
\* give back the container text character for character, whatever the text.
C13_MarkerRoundTripExact ==
    (mPc = "removed" /\ mCb = "identity") => mClean = mText

\* the lines of a text, told apart independently of SplitLines
LineCount(t) == 1 + Cardinality({i \in 1..Len(t) : t[i] = "nl"})

\* the lines of the returned text that have no entry in the marker dict
Unmarked(i) == ~mWith \/ (i - 1) \notin DOMAIN mMarkers

\* C14: remove_format_markers never raises, whatever the callback returned;
\* it returns a text with the lines of the callback's text, and a line without
\* marker information gets no spacing restored: it comes back as the
\* callback wrote it, less the marker tokens.
C14_RemoveNeverRaises ==
    /\ mPc # "remove_raised"
    /\ mPc = "removed" =>
          /\ LineCount(mClean) = LineCount(mRet)
          /\ \A i \in 1..LineCount(mRet) :
                Unmarked(i) =>
                    LET line == SplitLines(mRet)[i]
                        out == SplitLines(mClean)[i]
                    IN /\ Len(out) <= Len(line)
                       /\ (\A j \in 1..Len(line) : line[j] # "[") => out = line

\* C14 witness: the callback added a line with leading whitespace, the marker
\* dict was given, and the added line came back as it was
C14_Witness ==
    /\ mPc = "removed"
    /\ mCb = "addline"
    /\ mWith
    /\ LineCount(mRet) = LineCount(mText) + 1
    /\ SplitLines(mClean)[LineCount(mRet)] = <<" ", "a">>

-----------------------------------------------------------------------------
(* Further properties of the Word validator and comparator (SpecVal) *)

\* paragraph pairs whose runs validate_document_structure compares
ComparedParas ==
    {i \in DOMAIN origDoc.paragraphs \cap DOMAIN transDoc.paragraphs :
        /\ Stripped(ParagraphText(origDoc.paragraphs[i])) # <<>>
        /\ Stripped(ParagraphText(transDoc.paragraphs[i])) # <<>>}

\* corresponding runs that differ in font name, size, bold, italic, underline or color
RunsDiffer(a, b) ==
    \/ a.fmt.font_name # b.fmt.font_name
    \/ a.fmt.font_size # b.fmt.font_size
    \/ a.fmt.bold # b.fmt.bold
    \/ a.fmt.italic # b.fmt.italic
    \/ a.fmt.underline # b.fmt.underline
    \/ a.fmt.color # b.fmt.color

DifferingRunPairs ==
    {<<i, j>> \in ComparedParas \X (1..(MaxRuns + 2)) :
        /\ j <= Len(origDoc.paragraphs[i]) /\ j <= Len(transDoc.paragraphs[i])
        /\ RunsDiffer(origDoc.paragraphs[i][j], transDoc.paragraphs[i][j])}

\* C15: in validate_document_structure a difference between corresponding
\* runs in font name, font size, bold, italic, underline or color adds a
\* warning, and adds no error and leaves structure_match alone.
C15_RunDifferencesAreWarnings ==
    (report.done /\ loadOk /\ badNode = 0) =>
        /\ DifferingRunPairs # {} =>
              \E w \in Range(report.r.warnings) :
                  w.msg = "Run formatting mismatch detected"
        /\ (/\ Len(origDoc.paragraphs) = Len(transDoc.paragraphs)
            /\ origDoc.tables = transDoc.tables) =>
              (report.r.structure_match /\ report.r.errors = <<>>)

\* multi-run paragraphs, and those of them that are not blank
MultiRun(doc) == {i \in DOMAIN doc.paragraphs : Len(doc.paragraphs[i]) > 1}
MultiRunNonBlank(doc) ==
    {i \in MultiRun(doc) : Stripped(ParagraphText(doc.paragraphs[i])) # <<>>}

\* the score f is the ratio a / b, or 1 when b is 0
IsRatio(f, a, b) ==
    IF b = 0 THEN f.num = f.den /\ f.den > 0
    ELSE f.den > 0 /\ f.num * b = a * f.den

\* C16 as stated: formatting_preservation_score of compare_documents is the
\* number of multi-run paragraphs of the translated document over that of
\* the original, and 1.0 when the original has none.
C16_PreservationScore_AsStated ==
    (comparison.done /\ loadOk /\ badNode = 0) =>
        IsRatio(comparison.r.formatting_preservation_score,
                Cardinality(MultiRun(transDoc)), Cardinality(MultiRun(origDoc)))

\* C16 amended: formatting_preservation_score of compare_documents is the
\* number of non-blank multi-run paragraphs of the translated document over
\* that of the original, and exactly 1.0 when the original has none.
C16_PreservationScore ==
    (comparison.done /\ loadOk /\ badNode = 0) =>
        /\ IsRatio(comparison.r.formatting_preservation_score,
                   Cardinality(MultiRunNonBlank(transDoc)),
                   Cardinality(MultiRunNonBlank(origDoc)))
        /\ MultiRunNonBlank(origDoc) = {} =>
              comparison.r.formatting_preservation_score = Frac(1, 1)

\* C16 witness: two complex paragraphs in the original, one left in the
\* translation, score 1/2
C16_Witness ==
    /\ comparison.done /\ loadOk /\ badNode = 0
    /\ Cardinality(MultiRunNonBlank(origDoc)) = 2
    /\ Cardinality(MultiRunNonBlank(transDoc)) = 1
    /\ comparison.r.formatting_preservation_score = Frac(1, 2)

\* C17: a failure on one malformed paragraph does not make the validators
\* raise and does not stop the walk: the entries for the other paragraphs
\* (here the run-count entry of a paragraph walked before the malformed one)
\* are still in the report.
C17_WalkContinuesAfterFailure ==
    (report.done /\ loadOk /\ badNode # 0) =>
        \A i \in ComparedParas :
            (i # badNode /\ Len(origDoc.paragraphs[i]) # Len(transDoc.paragraphs[i])) =>
                \E w \in Range(report.r.warnings) \cup Range(report.r.errors) :
                    w.msg = "Run count mismatch in paragraph"

-----------------------------------------------------------------------------
(* Properties of the container-level reconstruction (SpecShape) *)

\* C18: once the formatting of a container is stored for processing it,
\* format_maps[id] holds exactly as many records as the container had runs,
\* for every container of every slide of the pass.
C18_SnapshotLengthIsRunCount ==
    processed.done =>
        Len(StoredFormats(format_maps, processed.shape_id)) = processed.run_count

RECURSIVE NonBlankLines(_)
\* the lines of a sequence of lines that are not blank
NonBlankLines(lines) ==
    IF lines = <<>> THEN <<>>
    ELSE (IF Stripped(Head(lines)) # <<>> THEN <<Head(lines)>> ELSE <<>>)
         \o NonBlankLines(Tail(lines))

\* C20: after _update_text_frame with a non-blank translated text the
\* container has exactly one paragraph per non-empty line of that text, in
\* line order, and no other paragraph.
C20_OneParagraphPerLine ==
    (processed.done /\ Stripped(processed.new_text) # <<>>) =>
        LET lines == NonBlankLines(SplitLines(processed.new_text))
            paras == prs[processed.slide][processed.shape].paragraphs
        IN /\ Len(paras) = Len(lines)
           /\ \A i \in 1..Len(lines) : ParagraphText(paras[i]) = Stripped(lines[i])

-----------------------------------------------------------------------------
(* Properties of the order of the callback calls (SpecOrder) *)

\* place a comes before place b in reading order: main paragraphs, tables,
\* headers, footers (Word) or slide by slide (PowerPoint), then table or
\* section or shape, row, cell, paragraph and run
ReadsBefore(a, b) ==
    \E k \in 1..6 : a[k] < b[k] /\ \A m \in 1..(k - 1) : a[m] = b[m]

\* C19: the calls of the callback in one pass are strictly sequential and in
\* reading order: at most one call is outstanding, every call has returned
\* before the next one starts, and the calls go run by run, paragraph by
\* paragraph, row by row and cell by cell, and in Word through the main
\* paragraphs, then the tables, then the headers, then the footers.
C19_CallsSequentialInReadingOrder ==
    /\ Cardinality(inFlight) <= 1
    /\ \A at \in inFlight : callLog # <<>> /\ at = callLog[Len(callLog)]
    /\ \A i \in 1..(Len(callLog) - 1) : callLog[i] \in returned
    /\ \A i, j \in DOMAIN callLog : i < j => ReadsBefore(callLog[i], callLog[j])

\* C19 witness: a Word pass that went through main paragraphs, two rows of a
\* table, headers and footers, and was saved
C19_Witness ==
    /\ docKind = "docx" /\ passPc = "saved"
    /\ \A part \in 1..4 : \E i \in DOMAIN callLog : callLog[i][1] = part
    /\ \E i, j \in DOMAIN callLog :
          callLog[i][1] = 2 /\ callLog[j][1] = 2 /\ callLog[i][3] < callLog[j][3]
    /\ \A i \in DOMAIN callLog : callLog[i] \in returned

-----------------------------------------------------------------------------
(* Further properties of the container-level reconstruction (SpecShape) *)

\* the container the last _process_text_frame call rebuilt
Rebuilt == prs[processed.slide][processed.shape]

\* C21: the replay of the snapshot is by flattened index: the i-th rebuilt
\* paragraph ends with the i-th stored paragraph-level attributes, and the
\* k-th run of the rebuilt paragraphs overall gets the k-th record captured
\* from the container, as long as there are records.
C21_ReplayByFlattenedIndex ==
    (processed.done /\ Stripped(processed.new_text) # <<>>) =>
        LET stored_props == processed.original.props
            records == CollectAll(processed.original.paragraphs, stored_props)
            added == Tail(Rebuilt.paragraphs)
            added_props == Tail(Rebuilt.props)
        IN /\ \A i \in 1..Min(Len(added), Len(stored_props)) :
                  added_props[i] = stored_props[i]
           /\ \A k \in 1..Min(Len(added), Len(records)) :
                  added[k][1].fmt = ApplyRunFormattingPptx(NewRunFmt, records[k])

\* the paragraphs of the processed container that have non-whitespace text
KeptParas ==
    {i \in DOMAIN processed.original.paragraphs :
        Stripped(ParagraphText(processed.original.paragraphs[i])) # <<>>}

\* the n-th of them, in order
NthKept(n) == CHOOSE i \in KeptParas : Cardinality({j \in KeptParas : j <= i}) = n

\* a text with its vertical tabs turned into line breaks
VtAsBreak(t) == [i \in DOMAIN t |-> IF t[i] = "vt" THEN "nl" ELSE t[i]]

\* C22 as stated: the container text is the run texts of each paragraph
\* concatenated with no separator, the paragraphs without non-whitespace
\* text skipped, the remaining ones joined with exactly one line break.
C22_ContainerText_AsStated ==
    processed.done =>
        processed.content =
            JoinLines([n \in 1..Cardinality(KeptParas) |->
                          ParagraphText(processed.original.paragraphs[NthKept(n)])])

\* C22 amended: the same, where every vertical tab inside a run's text has
\* been turned into a line break.
C22_ContainerText ==
    processed.done =>
        processed.content =
            JoinLines([n \in 1..Cardinality(KeptParas) |->
                          VtAsBreak(ParagraphText(processed.original.paragraphs[NthKept(n)]))])

\* C22 witness: a container of two runs in one paragraph, a paragraph
\* without runs that is skipped, and a third paragraph
C22_Witness ==
    /\ processed.done
    /\ Len(processed.original.paragraphs) = 3
    /\ KeptParas = {1, 3}
    /\ processed.content = T_ciao \o <<"nl">> \o T_io \o <<"nl">> \o T_me


-----------------------------------------------------------------------------
(* Properties of the SmartArt text nodes (SpecSmart) *)

\* t occurs in u as a contiguous piece
IsInfix(t, u) ==
    \E i \in 0..(Len(u) - Len(t)) : SubSeq(u, i + 1, i + Len(t)) = t

\* the entries of content_list whose translation was written
TranslatedEntries == {j \in 1..Len(smCalls) : smCalls[j] # None}

\* the last entry of content_list whose translation was written, 0 if none
LastTranslated ==
    IF TranslatedEntries = {} THEN 0
    ELSE CHOOSE j \in TranslatedEntries : \A k \in TranslatedEntries : k <= j

\* C23 as stated: after a SmartArt of several text nodes was processed,
\* only the first node holds content, every other node is empty, and no
\* translated text of a node is lost: the first node holds each of them.
C23_FirstNodeHoldsAll_AsStated ==
    (smPc = "done" /\ Len(smNodes) >= 2 /\ TranslatedEntries # {}) =>
        /\ \A i \in 2..Len(smNodes) : smNodes[i] = <<>>
        /\ \A j \in TranslatedEntries : IsInfix(smCalls[j][1], smNodes[1])

\* what the loop does instead: after a SmartArt was processed in which a
\* node was translated, every node but the first is empty and the first node holds
\* exactly the translation of the last translated node (the translations
\* of the earlier nodes are overwritten); when no node was translated the
\* nodes are as they were.
C23_FirstNodeHoldsLast ==
    smPc = "done" =>
        IF TranslatedEntries = {} THEN smNodes = smOrig
        ELSE /\ \A i \in 2..Len(smNodes) : smNodes[i] = <<>>
             /\ smNodes[1] = smCalls[LastTranslated][1]

\* three nodes with text, each translated to a different text: the first
\* node ends with the translation of the third alone
SmartArtKeepsLastOnly ==
    /\ smPc = "done"
    /\ smOrig = <<T_ciao, T_sono, T_io>>
    /\ smCb = "dict"
    /\ smNodes = <<T_me, <<>>, <<>>>>


-----------------------------------------------------------------------------
(* Properties of the context identifiers (SpecIds) *)

\* C24: the identifiers produced for the containers of one traversal are
\* pairwise distinct: two different containers (text frames, table cells,
\* SmartArt text nodes, notes, on any slide) never get the same identifier.
C24_IdentifiersDistinct ==
    \A i, j \in 1..Len(idSeen) :
        idSeen[i].container # idSeen[j].container => idSeen[i].id # idSeen[j].id

\* the same within one slide, the notes of the slide included
C24_DistinctWithinSlide ==
    \A i, j \in 1..Len(idSeen) :
        (idSeen[i].container # idSeen[j].container
            /\ idSeen[i].container[1] = idSeen[j].container[1])
        => idSeen[i].id # idSeen[j].id


-----------------------------------------------------------------------------
(* Properties of the load and save steps of a pass (SpecOrder) *)

\* every run the loops call translate for was called for and rewritten
EveryContainerProcessed ==
    /\ callLog = VisitOrder(docKind, document)
    /\ inFlight = {}
    /\ returned = {callLog[i] : i \in 1..Len(callLog)}

\* C25: a failure of the load or of the save reaches the caller as an
\* exception (the pass ends failed, never saved); save is called at most
\* once, and only after every container was processed; a pass whose load
\* or processing failed never calls save.
C25_SaveOnceAfterAllAndFailuresPropagate ==
    /\ failedIn # "none" <=> passPc = "failed"
    /\ saves <= 1
    /\ saves = 1 => EveryContainerProcessed
    /\ failedIn \in {"load", "translate"} => saves = 0
    /\ passPc = "saved" => saves = 1
    /\ passPc \in {"loading", "running"} => saves = 0

\* C25 witness: a pass that made calls, went through every container and
\* then failed in its one save
C25_Witness ==
    /\ passPc = "failed"
    /\ failedIn = "save"
    /\ saves = 1
    /\ Len(callLog) >= 2
    /\ EveryContainerProcessed


-----------------------------------------------------------------------------
(* Properties of the translator's switches (SpecOrder) *)

\* the places translate was called for or whose text was rewritten
Touched == {callLog[i] : i \in 1..Len(callLog)} \cup inFlight \cup returned

\* at is the notes region of a slide of presentation d
IsNotesPlace(d, at) == at[2] = Len(d.slides[at[1]].shapes) + 1

\* C26: with translate_notes off no notes text is handed to the callback
\* or rewritten; with translate_headers (translate_footers) off no header
\* (footer) paragraph is handed to the callback or rewritten.
C26_SwitchedOffPartsUntouched ==
    /\ (docKind = "pptx" /\ passPc # "idle" /\ ~document.translate_notes)
          => \A at \in Touched : ~IsNotesPlace(document, at)
    /\ (docKind = "docx" /\ passPc # "idle" /\ ~document.translate_headers)
          => \A at \in Touched : at[1] # 3
    /\ (docKind = "docx" /\ passPc # "idle" /\ ~document.translate_footers)
          => \A at \in Touched : at[1] # 4

\* C26 witness: a saved Word pass with headers off and footers on, whose
\* headers and footers both hold text: the footer was translated
C26_Witness ==
    /\ docKind = "docx" /\ passPc = "saved"
    /\ ~document.translate_headers /\ document.translate_footers
    /\ VisitHeadersDocx(document.sections) # <<>>
    /\ \E at \in returned : at[1] = 4
    /\ \E at \in returned : at[1] = 1

\* a saved PowerPoint pass with notes off over a slide that has notes
C26_WitnessPptx ==
    /\ docKind = "pptx" /\ passPc = "saved"
    /\ ~document.translate_notes
    /\ \E n \in 1..Len(document.slides) : Truthy(Strip(document.slides[n].notes))
    /\ returned # {}


-----------------------------------------------------------------------------
(* Properties of the built-in translate_text (SpecSvc) *)

\* C27: translate_text never raises; for an empty or all-whitespace text
\* it returns the text without calling the service; when the call of the
\* service fails it returns the text unchanged.
C27_TranslateTextNeverRaises ==
    svPc = "returned" =>
        /\ ~svResult.raised
        /\ ReturnsEarly(svText) => (svCalls = 0 /\ svResult.val = svText)
        /\ (~ReturnsEarly(svText) /\ svService \in {"raises", "no_choice", "no_content"})
              => (svCalls = 1 /\ svResult.val = svText)

\* C27 witness: a text with surrounding spacing whose service call raised;
\* the text came back as it was
C27_Witness ==
    /\ svPc = "returned"
    /\ svText = <<" ">> \o T_sono
    /\ svService = "raises"
    /\ svCalls = 1
    /\ svResult = Returns(svText)

\* an all-whitespace text returned without a call of the service
C27_WitnessBlank ==
    /\ svPc = "returned"
    /\ svText = <<"nl", " ">>
    /\ svCalls = 0
    /\ svResult = Returns(svText)


-----------------------------------------------------------------------------
(* Properties of the structure report's verdict (SpecVal) *)

\* C28: in every report of validate_document_structure, structure_match is
\* false whenever the errors list is not empty; a row-count or cell-count
\* mismatch in a table, which adds an error, makes structure_match false.
C28_ErrorsImplyNoStructureMatch ==
    report.done => (report.r.errors # <<>> => ~report.r.structure_match)

\* the same for the errors of the paragraph count, of the table count and
\* of a failed validation alone
C28_CountErrorsImplyNoStructureMatch ==
    report.done =>
        ((\E i \in 1..Len(report.r.errors) :
             report.r.errors[i].msg \in {"Paragraph count mismatch", "Table count mismatch",
                                         "Validation failed"})
         => ~report.r.structure_match)


-----------------------------------------------------------------------------
(* Properties of the identity callback (Spec) *)

RECURSIVE TranslateParagraphRuns(_, _, _, _)
\* the whole loop of _translate_paragraph_runs from run i on, for a callback
\* that returns: the runs of the paragraph when the loop is through
TranslateParagraphRuns(k, c, rs, i) ==
    IF i > Len(rs) THEN rs
    ELSE IF RunEligible(k, rs[i].text)
    THEN TranslateParagraphRuns(k, c,
            SetRunText(rs, i, TranslatedText(rs[i].text,
                                             TranslateFunc(c, CoreText(rs[i].text)).val)),
            i + 1)
    ELSE TranslateParagraphRuns(k, c, rs, i + 1)

\* the loop of the pass computes what TranslateParagraphRuns computes
LoopComputesTranslateParagraphRuns ==
    (pass \in {"running", "saved"} /\ ri = Len(runs))
        => runs = TranslateParagraphRuns(kind, cb, orig, 1)

\* C29: with the identity callback the run-by-run strategy leaves the text
\* of every run of every processed paragraph exactly as it was, at every
\* point of the pass; processing the result once more changes nothing.
C29_IdentityIsNoOp ==
    (cb = "identity" /\ pass # "idle") =>
        /\ Len(runs) = Len(orig)
        /\ \A i \in 1..Len(runs) : runs[i].text = orig[i].text
        /\ ri = Len(runs) => TranslateParagraphRuns(kind, cb, runs, 1) = runs

\* C29 witness: a saved pass with the identity callback in which the
\* callback was called for a run with spacing on both sides
C29_Witness ==
    /\ cb = "identity" /\ pass = "saved"
    /\ \E i \in 1..Len(runs) :
          /\ calls[i].called
          /\ orig[i].text = <<" ", " ">> \o T_hello \o <<" ", " ">>
          /\ calls[i].arg = T_hello
          /\ runs[i].text = orig[i].text


-----------------------------------------------------------------------------
(* Properties of the colour application (SpecFmt) *)

\* color_info holds an RGB value the RGB branch can write
UsableRgb(info) ==
    /\ info.type = Some(0) /\ info.rgb # None
    /\ info.rgb[1].isint
    /\ Len(DropLeadingZeros(info.rgb[1].hex)) >= 5

\* color_info holds a theme colour the theme branch can write
UsableTheme(info) ==
    /\ info.type = Some(1)
    /\ info.theme_color # None /\ info.theme_color # Some("NOT_THEME_COLOR")

\* the colour after the colour kind of info alone was written to color
KindWritten(color, info) ==
    IF UsableRgb(info)
    THEN SetRgb(color, RGBColorFromString(HexOf(info.rgb[1]).val).val)
    ELSE SetThemeColor(color, info.theme_color[1])

C30_WitnessNothingWritten ==
    /\ fmtPc = "applied_color"
    /\ run0.color = ColorTheme
    /\ rec.color_format[1].type = Some(0)
    /\ rec.color_format[1].rgb = Some(RGBColor(<<"F", "F", "0", "0", "0", "0">>))
    /\ rec.color_format[1].brightness = Some(40)
    /\ run1.color = ColorTheme

====
